---- MODULE Spec2Model ----
(***************************************************************************)
(* Model of the reversible edit operations of the TAS editor               *)
(* (src/modules/tas_studio/editor/operation.rs): Operation::apply and      *)
(* Operation::undo over a HLTAS script, the frame addressing they use and  *)
(* the invalidation index they return; of the undo/redo history over these *)
(* operations and the stored encoding of an operation; and of the console  *)
(* variables (src/modules/cvars.rs) registered in the engine's list, with   *)
(* the hooks that register them (src/hooks/engine.rs).                     *)
(*                                                                         *)
(* Options are modelled as sequences: None is <<>>, Some(x) is <<x>>.      *)
(* Indices are 0-based as in the source; TLA+ sequences are 1-based, so    *)
(* line i of the source is lines[i + 1].                                   *)
(***************************************************************************)
EXTENDS Integers, Sequences, FiniteSets, TLC

\* The script, the operation and the calls made on it.
VARIABLES hltas, input, op, calls, panicked, invalidated
\* The history: the log of operations, the number of applied entries, the
\* last call with the state it started from, and the current batch of calls.
VARIABLES log, cursor, last, batch
\* The stored bytes of an operation and the operation read back from them.
VARIABLES stored, decoded
\* The console variables: every cvar_s, the head of the engine's list, the
\* strings the engine has allocated, whether the engine is initialised, and
\* the last call with the state it started from.
VARIABLES raw, cvar_vars, zone, engine_up, cvar_call
\* The hooks: the engine pointers that are set, the modules that are enabled,
\* what the last hook did in order, and the Host_Shutdown hooks completed.
VARIABLES pointers, enabled, events, shutdowns

operationVars == <<op, calls>>
historyVars == <<log, cursor, last, batch>>
encodingVars == <<stored, decoded>>
cvarVars == <<raw, cvar_vars, zone, engine_up, cvar_call>>
hookVars == <<pointers, enabled, events, shutdowns>>
vars == <<hltas, input, op, calls, panicked, invalidated,
          log, cursor, last, batch, stored, decoded,
          raw, cvar_vars, zone, engine_up, cvar_call,
          pointers, enabled, events, shutdowns>>

(***************************************************************************)
(* Bounds of the model.                                                    *)
(***************************************************************************)
\* Longest script (in lines) a run starts from.
MaxLines == 2
\* Largest small frame count of a frame bulk in the script a run starts from.
MaxFrameCount == 2

\* The largest value of a NonZeroU32 (frame_count, left-right count).  TLC's
\* integers are 32-bit signed and cannot hold u32::MAX, so the u32 of the source
\* is modelled 16 bits wide; the usize sums of frame counts then stay exact.
U32_MAX == 65535

None == <<>>
Some(x) == <<x>>
IsSome(o) == o # <<>>
Unwrap(o) == o[1]
Min(a, b) == IF a < b THEN a ELSE b

(***************************************************************************)
(* The Key enum and Key::value_mut.                                        *)
(***************************************************************************)
Key == {"Forward", "Left", "Right", "Back", "Up", "Down",
        "Jump", "Duck", "Use", "Attack1", "Attack2", "Reload"}

NoMovementKeys == [forward |-> FALSE, left |-> FALSE, right |-> FALSE,
                   back |-> FALSE, up |-> FALSE, down |-> FALSE]
NoActionKeys == [jump |-> FALSE, duck |-> FALSE, use_ |-> FALSE,
                 attack_1 |-> FALSE, attack_2 |-> FALSE, reload |-> FALSE]

\* Reading through the reference returned by Key::value_mut.
value_get(key, bulk) ==
    CASE key = "Forward" -> bulk.movement_keys.forward
      [] key = "Left" -> bulk.movement_keys.left
      [] key = "Right" -> bulk.movement_keys.right
      [] key = "Back" -> bulk.movement_keys.back
      [] key = "Up" -> bulk.movement_keys.up
      [] key = "Down" -> bulk.movement_keys.down
      [] key = "Jump" -> bulk.action_keys.jump
      [] key = "Duck" -> bulk.action_keys.duck
      [] key = "Use" -> bulk.action_keys.use_
      [] key = "Attack1" -> bulk.action_keys.attack_1
      [] key = "Attack2" -> bulk.action_keys.attack_2
      [] key = "Reload" -> bulk.action_keys.reload

\* A slip in value_mut: Attack2 aliased to the attack_1 field.
value_set_attack_slip(key, bulk, v) ==
    CASE key = "Forward" -> [bulk EXCEPT !.movement_keys.forward = v]
      [] key = "Left" -> [bulk EXCEPT !.movement_keys.left = v]
      [] key = "Right" -> [bulk EXCEPT !.movement_keys.right = v]
      [] key = "Back" -> [bulk EXCEPT !.movement_keys.back = v]
      [] key = "Up" -> [bulk EXCEPT !.movement_keys.up = v]
      [] key = "Down" -> [bulk EXCEPT !.movement_keys.down = v]
      [] key = "Jump" -> [bulk EXCEPT !.action_keys.jump = v]
      [] key = "Duck" -> [bulk EXCEPT !.action_keys.duck = v]
      [] key = "Use" -> [bulk EXCEPT !.action_keys.use_ = v]
      [] key = "Attack1" -> [bulk EXCEPT !.action_keys.attack_1 = v]
      [] key = "Attack2" -> [bulk EXCEPT !.action_keys.attack_1 = v]
      [] key = "Reload" -> [bulk EXCEPT !.action_keys.reload = v]

\* Writing through the reference returned by Key::value_mut.
value_set(key, bulk, v) ==
    CASE key = "Forward" -> [bulk EXCEPT !.movement_keys.forward = v]
      [] key = "Left" -> [bulk EXCEPT !.movement_keys.left = v]
      [] key = "Right" -> [bulk EXCEPT !.movement_keys.right = v]
      [] key = "Back" -> [bulk EXCEPT !.movement_keys.back = v]
      [] key = "Up" -> [bulk EXCEPT !.movement_keys.up = v]
      [] key = "Down" -> [bulk EXCEPT !.movement_keys.down = v]
      [] key = "Jump" -> [bulk EXCEPT !.action_keys.jump = v]
      [] key = "Duck" -> [bulk EXCEPT !.action_keys.duck = v]
      [] key = "Use" -> [bulk EXCEPT !.action_keys.use_ = v]
      [] key = "Attack1" -> [bulk EXCEPT !.action_keys.attack_1 = v]
      [] key = "Attack2" -> [bulk EXCEPT !.action_keys.attack_2 = v]
      [] key = "Reload" -> [bulk EXCEPT !.action_keys.reload = v]

(***************************************************************************)
(* The text form of a line and its parser, hltas::read::line.  A frame     *)
(* bulk line is the tuple of its seven '|'-separated fields                *)
(*   auto | movement keys | action keys | frame time | yaw | pitch | count *)
(* (the strings of the tests, operation.rs:353-472); key fields are tuples *)
(* of characters and numbers are tuples of decimal digits.  A comment is   *)
(* <<"//", text>>.  Anything else does not parse.                          *)
(***************************************************************************)
Digit == {"0", "1", "2", "3", "4", "5", "6", "7", "8", "9"}

DigitValue(d) ==
    CASE d = "0" -> 0 [] d = "1" -> 1 [] d = "2" -> 2 [] d = "3" -> 3
      [] d = "4" -> 4 [] d = "5" -> 5 [] d = "6" -> 6 [] d = "7" -> 7
      [] d = "8" -> 8 [] d = "9" -> 9

DigitChar(n) ==
    CASE n = 0 -> "0" [] n = 1 -> "1" [] n = 2 -> "2" [] n = 3 -> "3"
      [] n = 4 -> "4" [] n = 5 -> "5" [] n = 6 -> "6" [] n = 7 -> "7"
      [] n = 8 -> "8" [] n = 9 -> "9"

IsNumber(tok) == Len(tok) >= 1 /\ \A i \in 1..Len(tok) : tok[i] \in Digit

RECURSIVE ToNat(_)
ToNat(tok) ==
    IF tok = <<>> THEN 0
    ELSE 10 * ToNat(SubSeq(tok, 1, Len(tok) - 1)) + DigitValue(tok[Len(tok)])

\* The decimal digits of n, as the printer of the text form writes them.
RECURSIVE Digits(_)
Digits(n) ==
    IF n < 10 THEN <<DigitChar(n)>>
    ELSE Append(Digits(n \div 10), DigitChar(n % 10))

Dash == <<"-">>
NoKeys == <<"-", "-", "-", "-", "-", "-">>
MovementLetters == <<"f", "l", "r", "b", "u", "d">>
ActionLetters == <<"j", "d", "u", "1", "2", "r">>

\* Auto-action fields the model knows: no strafing, and strafing left-right
\* (s06) or right-left (s07), for which the yaw field holds the
\* left-right count.
AutoPlain == "----------"
AutoLeftRight == {"s06-------", "s07-------"}

IsKeys(field, letters) ==
    /\ Len(field) = 6
    /\ \A i \in 1..6 : field[i] \in {"-", letters[i]}

ParseFails == [ok |-> FALSE]
Parsed(line) == [ok |-> TRUE, line |-> line]

ReadFrameBulk(text) ==
    LET auto == text[1]
        count == ToNat(text[7])
        field == IF text[5] = Dash THEN None ELSE Some(ToNat(text[5]))
        leftRight == auto \in AutoLeftRight
        bulk == [auto_actions |-> auto,
                 movement_keys |->
                     [forward |-> text[2][1] # "-", left |-> text[2][2] # "-",
                      right |-> text[2][3] # "-", back |-> text[2][4] # "-",
                      up |-> text[2][5] # "-", down |-> text[2][6] # "-"],
                 action_keys |->
                     [jump |-> text[3][1] # "-", duck |-> text[3][2] # "-",
                      use_ |-> text[3][3] # "-", attack_1 |-> text[3][4] # "-",
                      attack_2 |-> text[3][5] # "-", reload |-> text[3][6] # "-"],
                 frame_time |-> text[4],
                 yaw |-> IF leftRight THEN None ELSE field,
                 left_right_count |-> IF leftRight THEN field ELSE None,
                 pitch |-> IF text[6] = Dash THEN None ELSE Some(ToNat(text[6])),
                 frame_count |-> count]
    IN  IF /\ auto \in {AutoPlain} \cup AutoLeftRight
           /\ IsKeys(text[2], MovementLetters)
           /\ IsKeys(text[3], ActionLetters)
           /\ text[5] = Dash \/ IsNumber(text[5])
           /\ text[6] = Dash \/ IsNumber(text[6])
           /\ IsNumber(text[7])
           /\ count >= 1 /\ count <= U32_MAX
           /\ leftRight => (IsSome(field) /\ Unwrap(field) >= 1
                            /\ Unwrap(field) <= U32_MAX)
        THEN Parsed([type |-> "FrameBulk", frame_bulk |-> bulk])
        ELSE ParseFails

\* hltas::read::line(text): the parsed line, or a failure.
read_line(text) ==
    IF Len(text) = 2 /\ text[1] = "//"
    THEN Parsed([type |-> "Comment", comment |-> text[2]])
    ELSE IF Len(text) = 7 THEN ReadFrameBulk(text)
    ELSE ParseFails

IsFrameBulk(line) == line.type = "FrameBulk"

FrameBulkLine(bulk) == [type |-> "FrameBulk", frame_bulk |-> bulk]

(***************************************************************************)
(* Frame addressing (editor/utils.rs).  Frame 0 is the initial frame, the  *)
(* state before any frame bulk has run: check_op asserts that no operation *)
(* returns Some(0), and op_delete, op_insert and op_replace run at line 0, *)
(* op_toggle_key at bulk 0.  The first line therefore starts at frame 1.   *)
(***************************************************************************)
FirstFrameIdx == 1

\* Number of frames of the frame bulks among the first n lines.
RECURSIVE FrameCountBefore(_, _)
FrameCountBefore(lines, n) ==
    IF n = 0 THEN 0
    ELSE FrameCountBefore(lines, n - 1)
         + (IF IsFrameBulk(lines[n]) THEN lines[n].frame_bulk.frame_count ELSE 0)

\* Iterator::nth on a sequence: the element at 0-based position n, if any.
Nth(seq, n) == IF n < Len(seq) THEN Some(seq[n + 1]) ELSE None

\* line_first_frame_idx(hltas): for every line, the index of its first frame.
line_first_frame_idx(h) ==
    [i \in 1..Len(h.lines) |-> FirstFrameIdx + FrameCountBefore(h.lines, i - 1)]

\* 0-based indices of the lines that are frame bulks, in order.
BulkLineIdxs(lines) ==
    SelectSeq([i \in 1..Len(lines) |-> i - 1], LAMBDA i : IsFrameBulk(lines[i + 1]))

\* bulk_and_first_frame_idx(hltas): for every frame bulk, the bulk (as the
\* index of its line, standing for the mutable reference) and the index of its
\* first frame.
bulk_and_first_frame_idx(h) ==
    LET idxs == BulkLineIdxs(h.lines)
    IN  [k \in 1..Len(idxs) |->
            [line_idx |-> idxs[k],
             first_frame_idx |-> FirstFrameIdx + FrameCountBefore(h.lines, idxs[k])]]

\* line_idx_and_repeat_at_frame(lines, frame_idx): the frame bulk line that
\* holds the frame_idx-th frame of the script (counting the frames of the frame
\* bulks from 0, as in op_split) and the offset of the frame in that bulk.
RECURSIVE LineIdxAndRepeatFrom(_, _, _)
LineIdxAndRepeatFrom(lines, i, frame_idx) ==
    IF i > Len(lines) THEN None
    ELSE IF ~IsFrameBulk(lines[i]) THEN LineIdxAndRepeatFrom(lines, i + 1, frame_idx)
    ELSE IF frame_idx < lines[i].frame_bulk.frame_count
         THEN Some([line_idx |-> i - 1, repeat |-> frame_idx])
         ELSE LineIdxAndRepeatFrom(lines, i + 1,
                                   frame_idx - lines[i].frame_bulk.frame_count)

line_idx_and_repeat_at_frame(lines, frame_idx) ==
    LineIdxAndRepeatFrom(lines, 1, frame_idx)

(***************************************************************************)
(* Vec::insert and Vec::remove on hltas.lines, and the outcome of a call.  *)
(***************************************************************************)
InsertAt(lines, i, line) ==
    SubSeq(lines, 1, i) \o <<line>> \o SubSeq(lines, i + 1, Len(lines))
RemoveAt(lines, i) ==
    SubSeq(lines, 1, i) \o SubSeq(lines, i + 2, Len(lines))

\* The call returned `value`, leaving the script h.
Ok(h, value) == [panicked |-> FALSE, hltas |-> h, value |-> value, message |-> ""]
\* The call panicked with `message`; h is the script at that moment.
Panic(h, message) == [panicked |-> TRUE, hltas |-> h, value |-> None, message |-> message]

BulkAt(h, line_idx) == h.lines[line_idx + 1].frame_bulk
WithBulk(h, line_idx, bulk) ==
    [h EXCEPT !.lines[line_idx + 1] = FrameBulkLine(bulk)]

(***************************************************************************)
(* Operation::apply, one operator per variant.                             *)
(***************************************************************************)
\* ApplySetFrameCount without the start frame of the bulk in the result.
ApplySetFrameCountNoStart(o, h) ==
    LET nth == Nth(bulk_and_first_frame_idx(h), o.bulk_idx)
    IN  IF nth = None THEN Panic(h, "invalid bulk index")
        ELSE LET line_idx == Unwrap(nth).line_idx
                 bulk == BulkAt(h, line_idx)
             IN  IF bulk.frame_count # o.from
                 THEN Panic(h, "wrong current frame count")
                 ELSE IF o.from # o.to
                 THEN IF o.to = 0
                      THEN Panic(h, "invalid new frame count")
                      ELSE Ok(WithBulk(h, line_idx, [bulk EXCEPT !.frame_count = o.to]),
                              Some(Min(o.from, o.to)))
                 ELSE Ok(h, None)

ApplySetFrameCount(o, h) ==
    LET nth == Nth(bulk_and_first_frame_idx(h), o.bulk_idx)
    IN  IF nth = None THEN Panic(h, "invalid bulk index")
        ELSE LET line_idx == Unwrap(nth).line_idx
                 first_frame_idx == Unwrap(nth).first_frame_idx
                 bulk == BulkAt(h, line_idx)
             IN  IF bulk.frame_count # o.from
                 THEN Panic(h, "wrong current frame count")
                 ELSE IF o.from # o.to
                 THEN IF o.to = 0
                      THEN Panic(h, "invalid new frame count")
                      ELSE Ok(WithBulk(h, line_idx, [bulk EXCEPT !.frame_count = o.to]),
                              Some(first_frame_idx + Min(o.from, o.to)))
                 ELSE Ok(h, None)

\* ApplySetYaw without the early return of the invalidation index.
ApplySetYawNoInvalidation(o, h) ==
    LET nth == Nth(bulk_and_first_frame_idx(h), o.bulk_idx)
    IN  IF nth = None THEN Panic(h, "invalid bulk index")
        ELSE LET line_idx == Unwrap(nth).line_idx
                 bulk == BulkAt(h, line_idx)
             IN  IF bulk.yaw = None
                 THEN Panic(h, "frame bulk should have yaw")
                 ELSE IF Unwrap(bulk.yaw) # o.from
                 THEN Panic(h, "wrong current yaw")
                 ELSE IF Unwrap(bulk.yaw) # o.to
                 THEN Ok(WithBulk(h, line_idx, [bulk EXCEPT !.yaw = Some(o.to)]), None)
                 ELSE Ok(h, None)

ApplySetYaw(o, h) ==
    LET nth == Nth(bulk_and_first_frame_idx(h), o.bulk_idx)
    IN  IF nth = None THEN Panic(h, "invalid bulk index")
        ELSE LET line_idx == Unwrap(nth).line_idx
                 first_frame_idx == Unwrap(nth).first_frame_idx
                 bulk == BulkAt(h, line_idx)
             IN  IF bulk.yaw = None
                 THEN Panic(h, "frame bulk should have yaw")
                 ELSE IF Unwrap(bulk.yaw) # o.from
                 THEN Panic(h, "wrong current yaw")
                 ELSE IF Unwrap(bulk.yaw) # o.to
                 THEN Ok(WithBulk(h, line_idx, [bulk EXCEPT !.yaw = Some(o.to)]),
                         Some(first_frame_idx))
                 ELSE Ok(h, None)

\* ApplyDelete returning the line index instead of the frame index.
ApplyDeleteLineIdx(o, h) ==
    LET nth == Nth(line_first_frame_idx(h), o.line_idx)
    IN  IF nth = None THEN Panic(h, "invalid line index")
        ELSE Ok([h EXCEPT !.lines = RemoveAt(h.lines, o.line_idx)], Some(o.line_idx))

ApplyDelete(o, h) ==
    LET nth == Nth(line_first_frame_idx(h), o.line_idx)
    IN  IF nth = None THEN Panic(h, "invalid line index")
        ELSE Ok([h EXCEPT !.lines = RemoveAt(h.lines, o.line_idx)], Some(Unwrap(nth)))

\* ApplySplit with the frame counts of the two halves swapped.
ApplySplitSwapped(o, h) ==
    LET at == line_idx_and_repeat_at_frame(h.lines, o.frame_idx)
    IN  IF at = None THEN Panic(h, "invalid frame index")
        ELSE LET line_idx == Unwrap(at).line_idx
                 repeat == Unwrap(at).repeat
                 bulk == BulkAt(h, line_idx)
                 new_bulk == [bulk EXCEPT !.frame_count = repeat]
             IN  IF ~(repeat > 0)
                 THEN Panic(h, "repeat should be above 0")
                 ELSE IF bulk.frame_count - repeat = 0
                 THEN Panic(h, "frame bulk should have more than 1 repeat")
                 ELSE Ok([h EXCEPT !.lines =
                             InsertAt(WithBulk(h, line_idx,
                                               [bulk EXCEPT !.frame_count =
                                                    bulk.frame_count - repeat]).lines,
                                      line_idx + 1, FrameBulkLine(new_bulk))],
                         None)

ApplySplit(o, h) ==
    LET at == line_idx_and_repeat_at_frame(h.lines, o.frame_idx)
    IN  IF at = None THEN Panic(h, "invalid frame index")
        ELSE LET line_idx == Unwrap(at).line_idx
                 repeat == Unwrap(at).repeat
                 bulk == BulkAt(h, line_idx)
                 new_bulk == [bulk EXCEPT !.frame_count = bulk.frame_count - repeat]
             IN  IF ~(repeat > 0)
                 THEN Panic(h, "repeat should be above 0")
                 ELSE IF bulk.frame_count - repeat = 0
                 THEN Panic(h, "frame bulk should have more than 1 repeat")
                 ELSE Ok([h EXCEPT !.lines =
                             InsertAt(WithBulk(h, line_idx,
                                               [bulk EXCEPT !.frame_count = repeat]).lines,
                                      line_idx + 1, FrameBulkLine(new_bulk))],
                         None)

\* ApplyReplace returning the start frame of the line after the replaced one.
ApplyReplaceNextStart(o, h) ==
    LET to == read_line(o.to)
        nth == Nth(line_first_frame_idx(h), o.line_idx)
    IN  IF ~to.ok THEN Panic(h, "line should be parse-able")
        ELSE IF nth = None THEN Panic(h, "invalid line index")
        ELSE Ok([h EXCEPT !.lines[o.line_idx + 1] = to.line],
                Some(FirstFrameIdx + FrameCountBefore(h.lines, o.line_idx + 1)))

ApplyReplace(o, h) ==
    LET to == read_line(o.to)
        nth == Nth(line_first_frame_idx(h), o.line_idx)
    IN  IF ~to.ok THEN Panic(h, "line should be parse-able")
        ELSE IF nth = None THEN Panic(h, "invalid line index")
        ELSE Ok([h EXCEPT !.lines[o.line_idx + 1] = to.line], Some(Unwrap(nth)))

\* ApplyToggleKey without the assertion on the current value of the flag.
ApplyToggleKeyUnchecked(o, h) ==
    LET nth == Nth(bulk_and_first_frame_idx(h), o.bulk_idx)
    IN  IF nth = None THEN Panic(h, "invalid bulk index")
        ELSE LET line_idx == Unwrap(nth).line_idx
                 first_frame_idx == Unwrap(nth).first_frame_idx
                 bulk == BulkAt(h, line_idx)
             IN  Ok(WithBulk(h, line_idx, value_set(o.key, bulk, o.to)),
                    Some(first_frame_idx))

ApplyToggleKey(o, h) ==
    LET nth == Nth(bulk_and_first_frame_idx(h), o.bulk_idx)
    IN  IF nth = None THEN Panic(h, "invalid bulk index")
        ELSE LET line_idx == Unwrap(nth).line_idx
                 first_frame_idx == Unwrap(nth).first_frame_idx
                 bulk == BulkAt(h, line_idx)
             IN  IF value_get(o.key, bulk) = o.to
                 THEN Panic(h, "assertion failed: left != right")
                 ELSE Ok(WithBulk(h, line_idx, value_set(o.key, bulk, o.to)),
                         Some(first_frame_idx))

\* ApplyInsert that appends the line to the script.
ApplyInsertAtEnd(o, h) ==
    LET line == read_line(o.line)
    IN  IF ~line.ok THEN Panic(h, "line should be parse-able")
        ELSE IF o.line_idx > Len(h.lines)
        THEN Panic(h, "insertion index should be <= len")
        ELSE LET inserted == [h EXCEPT !.lines = Append(h.lines, line.line)]
                 nth == Nth(line_first_frame_idx(inserted), o.line_idx)
             IN  IF nth = None THEN Panic(inserted, "invalid line index")
                 ELSE Ok(inserted, Some(Unwrap(nth)))

ApplyInsert(o, h) ==
    LET line == read_line(o.line)
    IN  IF ~line.ok THEN Panic(h, "line should be parse-able")
        ELSE IF o.line_idx > Len(h.lines)
        THEN Panic(h, "insertion index should be <= len")
        ELSE LET inserted == [h EXCEPT !.lines = InsertAt(h.lines, o.line_idx, line.line)]
                 nth == Nth(line_first_frame_idx(inserted), o.line_idx)
             IN  IF nth = None THEN Panic(inserted, "invalid line index")
                 ELSE Ok(inserted, Some(Unwrap(nth)))

ApplySetLeftRightCount(o, h) ==
    LET nth == Nth(bulk_and_first_frame_idx(h), o.bulk_idx)
    IN  IF nth = None THEN Panic(h, "invalid bulk index")
        ELSE LET line_idx == Unwrap(nth).line_idx
                 first_frame_idx == Unwrap(nth).first_frame_idx
                 bulk == BulkAt(h, line_idx)
             IN  IF bulk.left_right_count = None
                 THEN Panic(h, "frame bulk should have left-right count")
                 ELSE IF Unwrap(bulk.left_right_count) # o.from
                 THEN Panic(h, "wrong current left-right count")
                 ELSE IF o.from # o.to
                 THEN IF o.to = 0
                      THEN Panic(h, "invalid new left-right count")
                      ELSE Ok(WithBulk(h, line_idx,
                                       [bulk EXCEPT !.left_right_count = Some(o.to)]),
                              Some(first_frame_idx))
                 ELSE Ok(h, None)

\* Operation::apply(&self, hltas).
apply(o, h) ==
    CASE o.type = "SetFrameCount" -> ApplySetFrameCount(o, h)
      [] o.type = "SetYaw" -> ApplySetYaw(o, h)
      [] o.type = "Delete" -> ApplyDelete(o, h)
      [] o.type = "Split" -> ApplySplit(o, h)
      [] o.type = "Replace" -> ApplyReplace(o, h)
      [] o.type = "ToggleKey" -> ApplyToggleKey(o, h)
      [] o.type = "Insert" -> ApplyInsert(o, h)
      [] o.type = "SetLeftRightCount" -> ApplySetLeftRightCount(o, h)

(***************************************************************************)
(* Operation::undo, one operator per variant.                              *)
(***************************************************************************)
\* UndoSetFrameCount with max in place of min in the invalidation index.
UndoSetFrameCountMax(o, h) ==
    LET nth == Nth(bulk_and_first_frame_idx(h), o.bulk_idx)
    IN  IF nth = None THEN Panic(h, "invalid bulk index")
        ELSE LET line_idx == Unwrap(nth).line_idx
                 first_frame_idx == Unwrap(nth).first_frame_idx
                 bulk == BulkAt(h, line_idx)
             IN  IF bulk.frame_count # o.to
                 THEN Panic(h, "wrong current frame count")
                 ELSE IF o.from # o.to
                 THEN IF o.from = 0
                      THEN Panic(h, "invalid original frame count")
                      ELSE Ok(WithBulk(h, line_idx, [bulk EXCEPT !.frame_count = o.from]),
                              Some(first_frame_idx
                                   + (IF o.from > o.to THEN o.from ELSE o.to)))
                 ELSE Ok(h, None)

UndoSetFrameCount(o, h) ==
    LET nth == Nth(bulk_and_first_frame_idx(h), o.bulk_idx)
    IN  IF nth = None THEN Panic(h, "invalid bulk index")
        ELSE LET line_idx == Unwrap(nth).line_idx
                 first_frame_idx == Unwrap(nth).first_frame_idx
                 bulk == BulkAt(h, line_idx)
             IN  IF bulk.frame_count # o.to
                 THEN Panic(h, "wrong current frame count")
                 ELSE IF o.from # o.to
                 THEN IF o.from = 0
                      THEN Panic(h, "invalid original frame count")
                      ELSE Ok(WithBulk(h, line_idx, [bulk EXCEPT !.frame_count = o.from]),
                              Some(first_frame_idx + Min(o.from, o.to)))
                 ELSE Ok(h, None)

UndoSetYaw(o, h) ==
    LET nth == Nth(bulk_and_first_frame_idx(h), o.bulk_idx)
    IN  IF nth = None THEN Panic(h, "invalid bulk index")
        ELSE LET line_idx == Unwrap(nth).line_idx
                 first_frame_idx == Unwrap(nth).first_frame_idx
                 bulk == BulkAt(h, line_idx)
             IN  IF bulk.yaw = None
                 THEN Panic(h, "frame bulk should have yaw")
                 ELSE IF Unwrap(bulk.yaw) # o.to
                 THEN Panic(h, "wrong current yaw")
                 ELSE IF Unwrap(bulk.yaw) # o.from
                 THEN Ok(WithBulk(h, line_idx, [bulk EXCEPT !.yaw = Some(o.from)]),
                         Some(first_frame_idx))
                 ELSE Ok(h, None)

\* UndoDelete that reinserts the line at the end of the script.
UndoDeleteAppends(o, h) ==
    LET line == read_line(o.line)
    IN  IF ~line.ok THEN Panic(h, "line should be parse-able")
        ELSE IF o.line_idx > Len(h.lines)
        THEN Panic(h, "insertion index should be <= len")
        ELSE LET inserted == [h EXCEPT !.lines = Append(h.lines, line.line)]
                 nth == Nth(line_first_frame_idx(inserted), o.line_idx)
             IN  IF nth = None THEN Panic(inserted, "invalid line index")
                 ELSE Ok(inserted, Some(Unwrap(nth)))

UndoDelete(o, h) ==
    LET line == read_line(o.line)
    IN  IF ~line.ok THEN Panic(h, "line should be parse-able")
        ELSE IF o.line_idx > Len(h.lines)
        THEN Panic(h, "insertion index should be <= len")
        ELSE LET inserted == [h EXCEPT !.lines = InsertAt(h.lines, o.line_idx, line.line)]
                 nth == Nth(line_first_frame_idx(inserted), o.line_idx)
             IN  IF nth = None THEN Panic(inserted, "invalid line index")
                 ELSE Ok(inserted, Some(Unwrap(nth)))

\* UndoSplit that drops the previous bulk without adding its frame count.
UndoSplitKeepsCount(o, h) ==
    LET at == line_idx_and_repeat_at_frame(h.lines, o.frame_idx)
    IN  IF at = None THEN Panic(h, "invalid frame index")
        ELSE LET line_idx == Unwrap(at).line_idx
                 repeat == Unwrap(at).repeat
             IN  IF repeat # 0 THEN Panic(h, "current repeat should be 0")
                 ELSE IF ~(line_idx > 0) THEN Panic(h, "line index should be above 0")
                 ELSE LET prev == h.lines[line_idx]
                          removed == [h EXCEPT !.lines = RemoveAt(h.lines, line_idx - 1)]
                      IN  IF ~IsFrameBulk(prev)
                          THEN Panic(removed, "previous line should be frame bulk")
                          ELSE Ok(removed, None)

\* UndoSplit with a wrapping addition in place of checked_add.
UndoSplitWrapping(o, h) ==
    LET at == line_idx_and_repeat_at_frame(h.lines, o.frame_idx)
    IN  IF at = None THEN Panic(h, "invalid frame index")
        ELSE LET line_idx == Unwrap(at).line_idx
                 repeat == Unwrap(at).repeat
             IN  IF repeat # 0 THEN Panic(h, "current repeat should be 0")
                 ELSE IF ~(line_idx > 0) THEN Panic(h, "line index should be above 0")
                 ELSE LET prev == h.lines[line_idx]
                          removed == [h EXCEPT !.lines = RemoveAt(h.lines, line_idx - 1)]
                          bulk == BulkAt(removed, line_idx - 1)
                          sum == (bulk.frame_count + prev.frame_bulk.frame_count)
                                     % (U32_MAX + 1)
                      IN  IF ~IsFrameBulk(prev)
                          THEN Panic(removed, "previous line should be frame bulk")
                          ELSE Ok(WithBulk(removed, line_idx - 1,
                                           [bulk EXCEPT !.frame_count = sum]),
                                  None)

UndoSplit(o, h) ==
    LET at == line_idx_and_repeat_at_frame(h.lines, o.frame_idx)
    IN  IF at = None THEN Panic(h, "invalid frame index")
        ELSE LET line_idx == Unwrap(at).line_idx
                 repeat == Unwrap(at).repeat
             IN  IF repeat # 0 THEN Panic(h, "current repeat should be 0")
                 ELSE IF ~(line_idx > 0) THEN Panic(h, "line index should be above 0")
                 ELSE \* hltas.lines.remove(line_idx - 1) runs before the match on
                      \* its result.
                      LET prev == h.lines[line_idx]
                          removed == [h EXCEPT !.lines = RemoveAt(h.lines, line_idx - 1)]
                          bulk == BulkAt(removed, line_idx - 1)
                          sum == bulk.frame_count + prev.frame_bulk.frame_count
                      IN  IF ~IsFrameBulk(prev)
                          THEN Panic(removed, "previous line should be frame bulk")
                          ELSE IF sum > U32_MAX
                          THEN Panic(removed, "combined frame count should fit")
                          ELSE Ok(WithBulk(removed, line_idx - 1,
                                           [bulk EXCEPT !.frame_count = sum]),
                                  None)

\* UndoReplace writing `to`, as apply does, instead of `from`.
UndoReplaceWritesTo(o, h) ==
    LET to == read_line(o.to)
        nth == Nth(line_first_frame_idx(h), o.line_idx)
    IN  IF ~to.ok THEN Panic(h, "line should be parse-able")
        ELSE IF nth = None THEN Panic(h, "invalid line index")
        ELSE Ok([h EXCEPT !.lines[o.line_idx + 1] = to.line], Some(Unwrap(nth)))

UndoReplace(o, h) ==
    LET from == read_line(o.from)
        nth == Nth(line_first_frame_idx(h), o.line_idx)
    IN  IF ~from.ok THEN Panic(h, "line should be parse-able")
        ELSE IF nth = None THEN Panic(h, "invalid line index")
        ELSE Ok([h EXCEPT !.lines[o.line_idx + 1] = from.line], Some(Unwrap(nth)))

UndoToggleKey(o, h) ==
    LET nth == Nth(bulk_and_first_frame_idx(h), o.bulk_idx)
    IN  IF nth = None THEN Panic(h, "invalid bulk index")
        ELSE LET line_idx == Unwrap(nth).line_idx
                 first_frame_idx == Unwrap(nth).first_frame_idx
                 bulk == BulkAt(h, line_idx)
             IN  IF value_get(o.key, bulk) # o.to
                 THEN Panic(h, "assertion failed: left == right")
                 ELSE Ok(WithBulk(h, line_idx, value_set(o.key, bulk, ~o.to)),
                         Some(first_frame_idx))

\* UndoInsert returning the start frame of the line after the removed one.
UndoInsertNextStart(o, h) ==
    LET nth == Nth(line_first_frame_idx(h), o.line_idx)
    IN  IF nth = None THEN Panic(h, "invalid line index")
        ELSE Ok([h EXCEPT !.lines = RemoveAt(h.lines, o.line_idx)],
                Some(FirstFrameIdx + FrameCountBefore(h.lines, o.line_idx + 1)))

UndoInsert(o, h) ==
    LET nth == Nth(line_first_frame_idx(h), o.line_idx)
    IN  IF nth = None THEN Panic(h, "invalid line index")
        ELSE Ok([h EXCEPT !.lines = RemoveAt(h.lines, o.line_idx)], Some(Unwrap(nth)))

\* UndoSetLeftRightCount that keeps the count at `to`.
UndoSetLeftRightCountKeepsTo(o, h) ==
    LET nth == Nth(bulk_and_first_frame_idx(h), o.bulk_idx)
    IN  IF nth = None THEN Panic(h, "invalid bulk index")
        ELSE LET line_idx == Unwrap(nth).line_idx
                 first_frame_idx == Unwrap(nth).first_frame_idx
                 bulk == BulkAt(h, line_idx)
             IN  IF bulk.left_right_count = None
                 THEN Panic(h, "frame bulk should have left-right count")
                 ELSE IF Unwrap(bulk.left_right_count) # o.to
                 THEN Panic(h, "wrong current left-right count")
                 ELSE IF o.from # o.to
                 THEN IF o.from = 0
                      THEN Panic(h, "invalid original left-right count")
                      ELSE Ok(h, Some(first_frame_idx))
                 ELSE Ok(h, None)

UndoSetLeftRightCount(o, h) ==
    LET nth == Nth(bulk_and_first_frame_idx(h), o.bulk_idx)
    IN  IF nth = None THEN Panic(h, "invalid bulk index")
        ELSE LET line_idx == Unwrap(nth).line_idx
                 first_frame_idx == Unwrap(nth).first_frame_idx
                 bulk == BulkAt(h, line_idx)
             IN  IF bulk.left_right_count = None
                 THEN Panic(h, "frame bulk should have left-right count")
                 ELSE IF Unwrap(bulk.left_right_count) # o.to
                 THEN Panic(h, "wrong current left-right count")
                 ELSE IF o.from # o.to
                 THEN IF o.from = 0
                      THEN Panic(h, "invalid original left-right count")
                      ELSE Ok(WithBulk(h, line_idx,
                                       [bulk EXCEPT !.left_right_count = Some(o.from)]),
                              Some(first_frame_idx))
                 ELSE Ok(h, None)

\* Operation::undo(&self, hltas).
undo(o, h) ==
    CASE o.type = "SetFrameCount" -> UndoSetFrameCount(o, h)
      [] o.type = "SetYaw" -> UndoSetYaw(o, h)
      [] o.type = "Delete" -> UndoDelete(o, h)
      [] o.type = "Split" -> UndoSplit(o, h)
      [] o.type = "Replace" -> UndoReplace(o, h)
      [] o.type = "ToggleKey" -> UndoToggleKey(o, h)
      [] o.type = "Insert" -> UndoInsert(o, h)
      [] o.type = "SetLeftRightCount" -> UndoSetLeftRightCount(o, h)

(***************************************************************************)
(* The scripts and operations of the model.  As in tests::check_op a       *)
(* script is parsed from text lines.                                       *)
(***************************************************************************)
FrameTime == "0.004"

BulkText(auto, movement, action, yaw, count) ==
    <<auto, movement, action, FrameTime, yaw, Dash, Digits(count)>>

CommentText == <<"//", " marker">>
GarbageText == <<"garbage">>

Yaws == {10, 15}
LeftRightCounts == {10, 20}

\* Text lines of the scripts: the line of the tests with every small frame
\* count and with the largest one, and two-frame variations of it without yaw,
\* with a left-right count and with keys pressed.
BulkTexts ==
    {BulkText(AutoPlain, NoKeys, NoKeys, Digits(10), n) : n \in 1..MaxFrameCount}
    \cup {BulkText(AutoPlain, NoKeys, NoKeys, Digits(10), U32_MAX),
          BulkText(AutoPlain, NoKeys, NoKeys, Dash, 2),
          BulkText("s06-------", NoKeys, NoKeys, Digits(10), 2),
          BulkText(AutoPlain, <<"f", "-", "-", "-", "-", "-">>,
                   <<"j", "-", "-", "1", "-", "-">>, Digits(10), 2)}

ScriptTexts == BulkTexts \cup {CommentText}

\* HLTAS::from_str on the lines of a script.
from_str(texts) == [lines |-> [i \in 1..Len(texts) |-> read_line(texts[i]).line]]

\* The script and the operation of tests::op_set_frame_count.
TestScript == from_str(<<BulkText(AutoPlain, NoKeys, NoKeys, Digits(10), 6)>>)
TestOperation == [type |-> "SetFrameCount", bulk_idx |-> 0, from |-> 6, to |-> 10]

Scripts ==
    {from_str(texts) : texts \in UNION {[1..n -> ScriptTexts] : n \in 0..MaxLines}}
    \cup {TestScript}

\* Texts stored in Insert, Delete and Replace operations.
OperationTexts ==
    {BulkText(AutoPlain, NoKeys, NoKeys, Digits(10), 1),
     BulkText(AutoPlain, <<"f", "-", "-", "-", "-", "-">>,
              <<"j", "-", "-", "1", "-", "-">>, Digits(10), 2),
     BulkText(AutoPlain, NoKeys, NoKeys, Digits(10), 0),
     CommentText, GarbageText}

Idxs == 0..MaxLines
FrameIdxs == 0..(MaxLines * MaxFrameCount) \cup {U32_MAX}

Operations ==
    {TestOperation}
    \cup [type : {"SetFrameCount"}, bulk_idx : Idxs, from : 0..MaxFrameCount,
     to : 0..(MaxFrameCount + 1)]
    \cup [type : {"SetYaw"}, bulk_idx : Idxs, from : Yaws, to : Yaws]
    \cup [type : {"Delete"}, line_idx : Idxs, line : OperationTexts]
    \cup [type : {"Split"}, frame_idx : FrameIdxs]
    \cup [type : {"Replace"}, line_idx : Idxs, from : OperationTexts, to : OperationTexts]
    \cup [type : {"ToggleKey"}, bulk_idx : Idxs, key : Key, to : BOOLEAN]
    \cup [type : {"Insert"}, line_idx : 0..(MaxLines + 1), line : OperationTexts]
    \cup [type : {"SetLeftRightCount"}, bulk_idx : Idxs, from : LeftRightCounts,
          to : {0} \cup LeftRightCounts]

(***************************************************************************)
(* The state machine: an operation and a script are chosen, the operation  *)
(* is applied and then undone (tests::check_op), or undone on the script   *)
(* as it is.  A panic ends the run; hltas is then the script at the moment *)
(* of the panic.  `calls` logs each call with the script it started from   *)
(* and the invalidation index it returned.                                 *)
(***************************************************************************)
Call(fn, before, r) == [fn |-> fn, before |-> before, value |-> r.value]

\* The parts of the state a run of one component leaves alone: no history is
\* kept, nothing is stored, no console variable exists.
NoHistory == log = <<>> /\ cursor = 0 /\ last = None /\ batch = None
NoEncoding == stored = None /\ decoded = None
NoCVars ==
    /\ raw = <<>> /\ cvar_vars = None /\ zone = {}
    /\ engine_up = FALSE /\ cvar_call = None
NoHooks == pointers = {} /\ enabled = {} /\ events = <<>> /\ shutdowns = 0

Init ==
    /\ hltas \in Scripts
    /\ input = hltas
    /\ op \in Operations
    /\ calls = <<>>
    /\ panicked = FALSE
    /\ invalidated = None
    /\ NoHistory /\ NoEncoding /\ NoCVars /\ NoHooks

Apply ==
    /\ ~panicked
    /\ calls = <<>>
    /\ LET r == apply(op, hltas)
       IN  /\ hltas' = r.hltas
           /\ panicked' = r.panicked
           /\ invalidated' = r.value
           /\ calls' = Append(calls, Call("apply", hltas, r))
    /\ UNCHANGED <<input, op, historyVars, encodingVars, cvarVars, hookVars>>

Undo ==
    /\ ~panicked
    /\ Len(calls) <= 1
    /\ LET r == undo(op, hltas)
       IN  /\ hltas' = r.hltas
           /\ panicked' = r.panicked
           /\ invalidated' = r.value
           /\ calls' = Append(calls, Call("undo", hltas, r))
    /\ UNCHANGED <<input, op, historyVars, encodingVars, cvarVars, hookVars>>

Next == Apply \/ Undo

Spec == Init /\ [][Next]_vars

(***************************************************************************)
(* Vocabulary of the properties.                                           *)
(***************************************************************************)
\* Call k of the log returned (it did not panic).
Succeeded(k) == k \in 1..Len(calls) /\ (k < Len(calls) \/ ~panicked)
\* The script call k left behind.
After(k) == IF k < Len(calls) THEN calls[k + 1].before ELSE hltas
\* The operation was applied to `input` successfully and undo was then called.
AppliedThenUndo == Len(calls) = 2 /\ calls[1].fn = "apply"
\* The operation was applied to `input` and then undone, both successfully.
AppliedAndUndone == AppliedThenUndo /\ ~panicked

\* The expanded per-frame timeline of a script, run-length encoded: frame 0 is
\* the initial frame, then every frame bulk contributes frame_count frames of
\* its content.  The lines that are not frame bulks belong to the frame that
\* follows them (`pre`); those after the last frame bulk belong to an end
\* marker.  Adjacent runs of equal frames are merged, so two scripts have the
\* same frames exactly when their timelines are equal.
FrameOf(kind, bulk, pre) == [kind |-> kind, bulk |-> bulk, pre |-> pre]
Push(runs, frame, n) ==
    IF runs # <<>> /\ runs[Len(runs)].frame = frame
    THEN [runs EXCEPT ![Len(runs)].n = @ + n]
    ELSE Append(runs, [frame |-> frame, n |-> n])

RECURSIVE TimelineFrom(_, _, _, _)
TimelineFrom(lines, i, pre, runs) ==
    IF i > Len(lines) THEN Push(runs, FrameOf("end", None, pre), 1)
    ELSE IF ~IsFrameBulk(lines[i])
    THEN TimelineFrom(lines, i + 1, Append(pre, lines[i]), runs)
    ELSE LET bulk == lines[i].frame_bulk
             content == Some([bulk EXCEPT !.frame_count = 1])
             first == Push(runs, FrameOf("frame", content, pre), 1)
             all == IF bulk.frame_count > 1
                    THEN Push(first, FrameOf("frame", content, <<>>), bulk.frame_count - 1)
                    ELSE first
         IN  TimelineFrom(lines, i + 1, <<>>, all)

Timeline(h) == TimelineFrom(h.lines, 1, <<>>, <<[frame |-> FrameOf("initial", None, <<>>), n |-> 1]>>)

\* The first n frames of a timeline.
RECURSIVE Take(_, _)
Take(runs, n) ==
    IF n <= 0 \/ runs = <<>> THEN <<>>
    ELSE IF Head(runs).n >= n THEN <<[Head(runs) EXCEPT !.n = n]>>
    ELSE <<Head(runs)>> \o Take(Tail(runs), n - Head(runs).n)

\* Every frame before frame i is the same in both scripts.
SameFramesBefore(h1, h2, i) == Take(Timeline(h1), i) = Take(Timeline(h2), i)

\* The invalidation index `value` returned by a call that turned script
\* `before` into script `after` is sound.
SoundInvalidation(before, after, value) ==
    IF value = None THEN Timeline(before) = Timeline(after)
    ELSE SameFramesBefore(before, after, Unwrap(value))

\* The first frame of line line_idx in the timeline: after the initial frame
\* and the frames of the frame bulks before the line.
StartFrame(h, line_idx) == 1 + FrameCountBefore(h.lines, line_idx)
\* The line of frame bulk bulk_idx.
BulkLine(h, bulk_idx) == BulkLineIdxs(h.lines)[bulk_idx + 1]
BulkCount(h) == Len(BulkLineIdxs(h.lines))
TotalFrames(h) == FrameCountBefore(h.lines, Len(h.lines))

\* The old text an operation stores is the text of the line it removes or
\* overwrites in script h.
StoresOldText(o, h) ==
    /\ o.type = "Delete" =>
        /\ read_line(o.line).ok
        /\ o.line_idx < Len(h.lines)
        /\ h.lines[o.line_idx + 1] = read_line(o.line).line
    /\ o.type = "Replace" =>
        /\ read_line(o.from).ok
        /\ o.line_idx < Len(h.lines)
        /\ h.lines[o.line_idx + 1] = read_line(o.from).line

(***************************************************************************)
(* C1  Invertibility.                                                      *)
(***************************************************************************)
\* C1 as stated: whenever an operation, with any field values, was applied to
\* a script, undoing it succeeds and leaves the script equal to the one before
\* the apply.
InvertibilityAnyFields == AppliedThenUndo => (~panicked /\ hltas = input)

\* C1 (amended): whenever an operation was applied to a script, and the old
\* text a Delete or Replace stores is the text of the line it removed or
\* overwrote, undoing it succeeds and leaves the script equal to the one before
\* the apply.
Invertibility ==
    (AppliedThenUndo /\ StoresOldText(op, input)) => (~panicked /\ hltas = input)

\* A Delete that stores the text of the deleted line was applied and undone.
InvertibilityWitness ==
    /\ AppliedAndUndone /\ StoresOldText(op, input)
    /\ op.type = "Delete" /\ Len(After(1).lines) = Len(input.lines) - 1

(***************************************************************************)
(* C2  Invalidation soundness.                                             *)
(***************************************************************************)
\* A Split undo on script h merges two adjacent frame bulks that differ in
\* more than their frame_count.
MergesDifferentBulks(o, h) ==
    LET at == line_idx_and_repeat_at_frame(h.lines, o.frame_idx)
    IN  /\ o.type = "Split"
        /\ at # None
        /\ Unwrap(at).repeat = 0
        /\ Unwrap(at).line_idx > 0
        /\ IsFrameBulk(h.lines[Unwrap(at).line_idx])
        /\ [h.lines[Unwrap(at).line_idx].frame_bulk EXCEPT !.frame_count = 1]
           # [h.lines[Unwrap(at).line_idx + 1].frame_bulk EXCEPT !.frame_count = 1]

SplitMergeExact ==
    (AppliedThenUndo /\ op.type = "Split") =>
        /\ ~panicked
        /\ hltas = input
        /\ calls[1].value = None
        /\ calls[2].value = None

\* A Split was applied, leaving one line more, and undone.
SplitMergeExactWitness ==
    /\ AppliedAndUndone /\ op.type = "Split"
    /\ Len(calls[2].before.lines) = Len(input.lines) + 1

(***************************************************************************)
(* C4  No partial mutation on failure.                                     *)
(***************************************************************************)
\* C4: when an apply or undo call fails, the script at the moment of the
\* failure is the script the call started from.
NoPartialMutation == panicked => hltas = calls[Len(calls)].before

(***************************************************************************)
(* C5  Precondition violations are fatal.                                  *)
(***************************************************************************)
\* The cases C5 lists for call fn of operation o on script h.
ViolatesPrecondition(fn, o, h) ==
    LET expected == IF fn = "apply" THEN o.from ELSE o.to
        inRange == o.bulk_idx < BulkCount(h)
        bulk == h.lines[BulkLine(h, o.bulk_idx) + 1].frame_bulk
        at == line_idx_and_repeat_at_frame(h.lines, o.frame_idx)
    IN  CASE o.type = "SetFrameCount" ->
                ~inRange \/ bulk.frame_count # expected
          [] o.type = "SetYaw" ->
                ~inRange \/ bulk.yaw # Some(expected)
          [] o.type = "SetLeftRightCount" ->
                ~inRange \/ bulk.left_right_count # Some(expected)
          [] o.type = "ToggleKey" ->
                ~inRange \/ (IF fn = "apply" THEN value_get(o.key, bulk) = o.to
                                            ELSE value_get(o.key, bulk) # o.to)
          [] o.type = "Delete" ->
                IF fn = "apply" THEN o.line_idx >= Len(h.lines)
                                ELSE o.line_idx > Len(h.lines)
          [] o.type = "Insert" ->
                IF fn = "apply" THEN o.line_idx > Len(h.lines)
                                ELSE o.line_idx >= Len(h.lines)
          [] o.type = "Replace" -> o.line_idx >= Len(h.lines)
          [] o.type = "Split" ->
                \/ o.frame_idx >= TotalFrames(h)
                \/ (IF fn = "apply" THEN Unwrap(at).repeat = 0
                                    ELSE Unwrap(at).repeat # 0 \/ Unwrap(at).line_idx = 0)

\* C5: a call that violates a precondition fails: SetFrameCount, SetYaw and
\* SetLeftRightCount when the current value is not `from` (apply) or `to`
\* (undo), ToggleKey when the flag equals `to` (apply) or differs from it
\* (undo), any operation whose bulk, line or frame index is out of range (for
\* the inserting calls, Insert apply and Delete undo, beyond the end of the
\* script), Split apply at the first frame of a bulk, Split undo anywhere but
\* at the first frame of a bulk that is not the first line.
PreconditionViolationsFatal ==
    (Len(calls) >= 1 /\ ViolatesPrecondition(calls[Len(calls)].fn, op, calls[Len(calls)].before))
        => (panicked /\ invalidated = None)

\* A Split was applied at frame 0 of a script that has frames, and panicked.
PreconditionViolationsFatalWitness ==
    /\ Len(calls) = 1 /\ calls[1].fn = "apply" /\ op.type = "Split"
    /\ op.frame_idx = 0 /\ TotalFrames(input) > 0
    /\ panicked

(***************************************************************************)
(* C6  SetFrameCount formula.                                              *)
(***************************************************************************)
\* What a successful SetFrameCount call must have done: the addressed bulk of
\* `before` has frame_count `new` in `after`, nothing else changed, and the
\* call returned the bulk's start frame plus min(from, to); or, with
\* from = to, nothing changed and the call returned none.
SetFrameCountEffect(o, before, after, new, value) ==
    LET line_idx == BulkLine(before, o.bulk_idx)
    IN  IF o.from # o.to
        THEN /\ after = WithBulk(before, line_idx,
                                 [BulkAt(before, line_idx) EXCEPT !.frame_count = new])
             /\ BulkAt(after, line_idx).frame_count = new
             /\ value = Some(StartFrame(before, line_idx) + Min(o.from, o.to))
        ELSE after = before /\ value = None

\* C6: a successful SetFrameCount apply sets the frame_count of the addressed
\* bulk to `to` and a successful undo sets it to `from`; both return the
\* bulk's start frame plus min(from, to); with from = to both leave the script
\* unchanged and return none.
SetFrameCountFormula ==
    \A k \in 1..Len(calls) :
        (Succeeded(k) /\ op.type = "SetFrameCount") =>
            SetFrameCountEffect(op, calls[k].before, After(k),
                                IF calls[k].fn = "apply" THEN op.to ELSE op.from,
                                calls[k].value)

\* A SetFrameCount that grows a frame bulk after another frame bulk was applied
\* and undone.
SetFrameCountFormulaWitness ==
    /\ AppliedAndUndone /\ op.type = "SetFrameCount"
    /\ op.from < op.to /\ op.bulk_idx = 1
    /\ calls[1].value = calls[2].value /\ calls[1].value # None

(***************************************************************************)
(* C7  Frame addressing origin.                                            *)
(***************************************************************************)
\* tests::op_set_frame_count was applied successfully.
TestOperationApplied ==
    /\ Succeeded(1) /\ calls[1].fn = "apply"
    /\ input = TestScript /\ op = TestOperation

\* C7 as stated: the first bulk of a script starts at frame 0, so a successful
\* SetFrameCount apply on bulk 0 returns min(from, to) when from # to; on the
\* script whose only line is a bulk of 6 frames SetFrameCount{0, 6, 10} leaves
\* a bulk of 10 frames and returns 6.
FirstLineStartsAtZero ==
    /\ (Succeeded(1) /\ calls[1].fn = "apply" /\ op.type = "SetFrameCount"
        /\ op.bulk_idx = 0 /\ op.from # op.to)
            => calls[1].value = Some(0 + Min(op.from, op.to))
    /\ TestOperationApplied =>
            /\ BulkAt(After(1), 0).frame_count = 10
            /\ calls[1].value = Some(6)

\* C7 (amended): frame 0 is the initial frame and the first bulk of a script
\* starts at frame 1, so a successful SetFrameCount apply on bulk 0 returns
\* 1 + min(from, to) when from # to; on the script whose only line is a bulk of
\* 6 frames SetFrameCount{0, 6, 10} leaves a bulk of 10 frames and returns 7.
FirstLineStartsAtOne ==
    /\ (Succeeded(1) /\ calls[1].fn = "apply" /\ op.type = "SetFrameCount"
        /\ op.bulk_idx = 0 /\ op.from # op.to)
            => calls[1].value = Some(1 + Min(op.from, op.to))
    /\ TestOperationApplied =>
            /\ Len(After(1).lines) = 1
            /\ BulkAt(After(1), 0).frame_count = 10
            /\ calls[1].value = Some(7)

\* tests::op_set_frame_count was applied and left a bulk of 10 frames.
FirstLineStartsAtOneWitness ==
    TestOperationApplied /\ BulkAt(hltas, 0).frame_count = 10 /\ Len(calls) = 1

(***************************************************************************)
(* C8  The initial frame is never invalidated.                             *)
(***************************************************************************)
\* C8: no successful apply or undo call returns invalidation index 0.
InitialFrameNeverInvalidated ==
    \A k \in 1..Len(calls) : Succeeded(k) => calls[k].value # Some(0)

\* A Delete of line 0 was applied and undone; both calls returned an index.
InitialFrameNeverInvalidatedWitness ==
    /\ AppliedAndUndone /\ op.type = "Delete" /\ op.line_idx = 0
    /\ calls[1].value # None /\ calls[2].value # None

(***************************************************************************)
(* C9  ToggleKey frame effect.                                             *)
(***************************************************************************)
\* Script `after` is script `before` with flag `key` of the bulk at line
\* line_idx set to v and nothing else changed.
OnlyFlagChanged(before, after, line_idx, key, v) ==
    /\ Len(after.lines) = Len(before.lines)
    /\ \A i \in 1..Len(before.lines) : i # line_idx + 1 => after.lines[i] = before.lines[i]
    /\ IsFrameBulk(after.lines[line_idx + 1])
    /\ value_get(key, BulkAt(after, line_idx)) = v
    /\ \A other \in Key \ {key} :
        value_get(other, BulkAt(after, line_idx)) = value_get(other, BulkAt(before, line_idx))
    /\ BulkAt(after, line_idx).frame_count = BulkAt(before, line_idx).frame_count
    /\ BulkAt(after, line_idx).yaw = BulkAt(before, line_idx).yaw
    /\ BulkAt(after, line_idx).left_right_count = BulkAt(before, line_idx).left_right_count
    /\ BulkAt(after, line_idx).auto_actions = BulkAt(before, line_idx).auto_actions
    /\ BulkAt(after, line_idx).frame_time = BulkAt(before, line_idx).frame_time
    /\ BulkAt(after, line_idx).pitch = BulkAt(before, line_idx).pitch

\* C9: a successful ToggleKey apply changes only the named flag of the
\* addressed bulk, to `to`; undoing it sets the flag to ~to and restores the
\* script; a successful undo on any script changes only that flag, to ~to;
\* every call returns the start frame of the addressed bulk.
ToggleKeyEffect ==
    /\ \A k \in 1..Len(calls) :
        (Succeeded(k) /\ op.type = "ToggleKey") =>
            LET line_idx == BulkLine(calls[k].before, op.bulk_idx)
            IN  /\ OnlyFlagChanged(calls[k].before, After(k), line_idx, op.key,
                                   IF calls[k].fn = "apply" THEN op.to ELSE ~op.to)
                /\ calls[k].value = Some(StartFrame(calls[k].before, line_idx))
    /\ (AppliedThenUndo /\ op.type = "ToggleKey") => (~panicked /\ hltas = input)

\* A key was pressed on a frame bulk that has other keys pressed and is not
\* the first frame bulk, and the operation was undone.
ToggleKeyEffectWitness ==
    /\ AppliedAndUndone /\ op.type = "ToggleKey" /\ op.to /\ op.bulk_idx = 1
    /\ op.key = "Attack2"
    /\ BulkAt(input, BulkLine(input, 1)).movement_keys.forward

(***************************************************************************)
(* C10  Split result.                                                      *)
(***************************************************************************)
\* The line of `h` whose frame bulk holds frame frame_idx (counting the frames
\* of the frame bulks from 0).
LineOfFrame(h, frame_idx) ==
    CHOOSE i \in 0..(Len(h.lines) - 1) :
        /\ IsFrameBulk(h.lines[i + 1])
        /\ FrameCountBefore(h.lines, i) <= frame_idx
        /\ frame_idx < FrameCountBefore(h.lines, i + 1)

\* C10: a successful Split apply at a frame inside a bulk of c frames, at
\* offset repeat with 0 < repeat < c, replaces the bulk by two adjacent bulks of
\* repeat and c - repeat frames that equal it in every other field, leaves the
\* other lines unchanged and in order, keeps the total frame count, and
\* returns none.
SplitResult ==
    (Succeeded(1) /\ calls[1].fn = "apply" /\ op.type = "Split") =>
        LET before == calls[1].before
            after == After(1)
            line_idx == LineOfFrame(before, op.frame_idx)
            bulk == BulkAt(before, line_idx)
            repeat == op.frame_idx - FrameCountBefore(before.lines, line_idx)
        IN  /\ 0 < repeat /\ repeat < bulk.frame_count
            /\ Len(after.lines) = Len(before.lines) + 1
            /\ after.lines[line_idx + 1] = FrameBulkLine([bulk EXCEPT !.frame_count = repeat])
            /\ after.lines[line_idx + 2]
                 = FrameBulkLine([bulk EXCEPT !.frame_count = bulk.frame_count - repeat])
            /\ \A i \in 1..line_idx : after.lines[i] = before.lines[i]
            /\ \A i \in (line_idx + 2)..Len(before.lines) : after.lines[i + 1] = before.lines[i]
            /\ TotalFrames(after) = TotalFrames(before)
            /\ calls[1].value = None

\* A Split was applied inside a frame bulk into halves of different sizes, in
\* a script with a line before it.
SplitResultWitness ==
    /\ Succeeded(1) /\ calls[1].fn = "apply" /\ op.type = "Split"
    /\ LineOfFrame(input, op.frame_idx) = 1
    /\ BulkAt(After(1), 1).frame_count # BulkAt(After(1), 2).frame_count


(***************************************************************************)
(* C11  SetYaw and SetLeftRightCount.                                      *)
(***************************************************************************)
\* What a successful SetYaw or SetLeftRightCount call must have done: the
\* addressed bulk of `before` has `new` in the field of the operation in
\* `after`, nothing else changed, and the call returned the bulk's start
\* frame; or, with from = to, nothing changed and the call returned none.
FieldEffect(o, before, after, new, value) ==
    LET line_idx == BulkLine(before, o.bulk_idx)
        bulk == BulkAt(before, line_idx)
        changed == IF o.type = "SetYaw"
                   THEN [bulk EXCEPT !.yaw = Some(new)]
                   ELSE [bulk EXCEPT !.left_right_count = Some(new)]
    IN  IF o.from # o.to
        THEN /\ after = WithBulk(before, line_idx, changed)
             /\ after # before
             /\ value = Some(StartFrame(before, line_idx))
        ELSE after = before /\ value = None

\* C11: a successful SetYaw or SetLeftRightCount apply sets only the yaw,
\* respectively the left-right count, of the addressed bulk to `to` and a
\* successful undo sets it back to `from`; both return the bulk's start frame;
\* with from = to both leave the script unchanged and return none.
SetFieldFormula ==
    \A k \in 1..Len(calls) :
        (Succeeded(k) /\ op.type \in {"SetYaw", "SetLeftRightCount"}) =>
            FieldEffect(op, calls[k].before, After(k),
                        IF calls[k].fn = "apply" THEN op.to ELSE op.from,
                        calls[k].value)

\* A SetLeftRightCount that changed the count of the second frame bulk was
\* applied and undone.
SetFieldFormulaWitness ==
    /\ AppliedAndUndone /\ op.type = "SetLeftRightCount"
    /\ op.from # op.to /\ op.bulk_idx = 1
    /\ After(1) # input /\ hltas = input
    /\ calls[1].value # None /\ calls[2].value # None

(***************************************************************************)
(* C12  Insert, Delete and Replace.                                        *)
(***************************************************************************)
\* `after` is `before` with `line` inserted at line_idx: the lines before it
\* stay, the lines from line_idx on move up by one.
LineInserted(before, after, line_idx, line) ==
    /\ Len(after.lines) = Len(before.lines) + 1
    /\ line_idx < Len(after.lines)
    /\ after.lines[line_idx + 1] = line
    /\ \A i \in 1..Len(before.lines) :
        before.lines[i] = after.lines[IF i <= line_idx THEN i ELSE i + 1]

\* `after` is `before` with only the line at line_idx overwritten by `line`.
LineOverwritten(before, after, line_idx, line) ==
    /\ Len(after.lines) = Len(before.lines)
    /\ line_idx < Len(after.lines)
    /\ after.lines[line_idx + 1] = line
    /\ \A i \in 1..Len(before.lines) :
        i # line_idx + 1 => before.lines[i] = after.lines[i]

\* What a successful Insert, Delete or Replace call must have done.
LineEffect(fn, o, before, after, value) ==
    CASE (o.type = "Insert" /\ fn = "apply") \/ (o.type = "Delete" /\ fn = "undo") ->
            /\ LineInserted(before, after, o.line_idx, read_line(o.line).line)
            /\ value = Some(StartFrame(after, o.line_idx))
      [] (o.type = "Insert" /\ fn = "undo") \/ (o.type = "Delete" /\ fn = "apply") ->
            /\ o.line_idx < Len(before.lines)
            /\ LineInserted(after, before, o.line_idx, before.lines[o.line_idx + 1])
            /\ value = Some(StartFrame(before, o.line_idx))
      [] o.type = "Replace" ->
            /\ LineOverwritten(before, after, o.line_idx,
                               read_line(IF fn = "apply" THEN o.to ELSE o.from).line)
            /\ value = Some(StartFrame(before, o.line_idx))
            /\ value = Some(StartFrame(after, o.line_idx))

\* C12: a successful Insert apply and a successful Delete undo insert the
\* parsed line at line_idx and return its start frame; a successful Insert
\* undo and a successful Delete apply remove the line at line_idx and return
\* the start frame it had; a successful Replace apply or undo overwrites only
\* the line at line_idx with the parsed `to` or `from` and returns its start
\* frame.  The script grows by one line, shrinks by one line or keeps its
\* length, and all other lines keep their content and order.
InsertDeleteMirror ==
    \A k \in 1..Len(calls) :
        (Succeeded(k) /\ op.type \in {"Insert", "Delete", "Replace"}) =>
            LineEffect(calls[k].fn, op, calls[k].before, After(k), calls[k].value)

\* A frame bulk was inserted between the two lines of a script, the first of
\* them a frame bulk, and removed again.
InsertDeleteMirrorWitness ==
    /\ AppliedAndUndone /\ op.type = "Insert" /\ op.line_idx = 1
    /\ Len(input.lines) = 2 /\ IsFrameBulk(input.lines[1])
    /\ IsFrameBulk(After(1).lines[2])
    /\ Len(After(1).lines) = 3 /\ hltas = input
    /\ calls[1].value = calls[2].value /\ Unwrap(calls[1].value) > 1

(***************************************************************************)
(* C13  The frame_count invariant.                                         *)
(***************************************************************************)
\* Every frame bulk of script h has a frame count of at least 1 that fits the
\* width of the field.
ValidFrameCounts(h) ==
    \A i \in 1..Len(h.lines) :
        IsFrameBulk(h.lines[i]) =>
            /\ h.lines[i].frame_bulk.frame_count >= 1
            /\ h.lines[i].frame_bulk.frame_count <= U32_MAX

\* Frame frame_idx is the first frame of a frame bulk of h that follows
\* another frame bulk, and the two frame counts together exceed the width.
SplitUndoOverflows(o, h) ==
    /\ o.frame_idx < TotalFrames(h)
    /\ LET i == LineOfFrame(h, o.frame_idx)
       IN  /\ FrameCountBefore(h.lines, i) = o.frame_idx
           /\ i > 0
           /\ IsFrameBulk(h.lines[i])
           /\ h.lines[i].frame_bulk.frame_count
                  + h.lines[i + 1].frame_bulk.frame_count > U32_MAX

\* C13: starting from a script whose frame bulks all have a frame count of at
\* least 1, every script a call starts from or leaves has frame counts of at
\* least 1 that fit the width; no SetFrameCount call with from = 0 or to = 0
\* succeeds; a successful Split apply leaves two bulks of at least one frame;
\* and no Split undo whose merged count would exceed the width succeeds.
FrameCountInvariant ==
    /\ ValidFrameCounts(hltas)
    /\ \A k \in 1..Len(calls) :
        /\ ValidFrameCounts(calls[k].before)
        /\ (op.type = "SetFrameCount" /\ (op.from = 0 \/ op.to = 0)) => ~Succeeded(k)
        /\ (op.type = "Split" /\ calls[k].fn = "apply" /\ Succeeded(k)) =>
            LET i == LineOfFrame(calls[k].before, op.frame_idx)
            IN  /\ BulkAt(After(k), i).frame_count >= 1
                /\ BulkAt(After(k), i + 1).frame_count >= 1
                /\ BulkAt(After(k), i).frame_count + BulkAt(After(k), i + 1).frame_count
                       = BulkAt(calls[k].before, i).frame_count
        /\ (op.type = "Split" /\ calls[k].fn = "undo"
              /\ SplitUndoOverflows(op, calls[k].before)) => ~Succeeded(k)

\* A frame bulk with the largest frame count was split and merged back into a
\* bulk with the largest frame count.
FrameCountInvariantWitness ==
    /\ AppliedAndUndone /\ op.type = "Split"
    /\ Len(input.lines) >= 1 /\ IsFrameBulk(input.lines[1])
    /\ input.lines[1].frame_bulk.frame_count = U32_MAX
    /\ Len(After(1).lines) = Len(input.lines) + 1
    /\ After(1).lines[2].frame_bulk.frame_count = U32_MAX - 1
    /\ hltas = input

(***************************************************************************)
(* C19  Apply and undo return the same invalidation index.                 *)
(***************************************************************************)
\* C19: when an operation was applied successfully and then undone
\* successfully on the resulting script, the undo returned the invalidation
\* index, or none, that the apply returned.
IndexSymmetry ==
    AppliedAndUndone => calls[2].value = calls[1].value

\* A line after a frame bulk was deleted and reinserted, both calls returning
\* the start frame of that line.
IndexSymmetryWitness ==
    /\ AppliedAndUndone /\ op.type = "Delete" /\ op.line_idx = 1
    /\ IsFrameBulk(input.lines[1])
    /\ calls[1].value = Some(StartFrame(input, 1))
    /\ calls[2].value = Some(StartFrame(input, 1))
    /\ StartFrame(input, 1) > 1

(***************************************************************************)
(* The history: an ordered log of operations with a cursor between the     *)
(* applied entries and the redo tail.  Every edit of the user is one       *)
(* operation that stores the old text of the line it acts on; it is        *)
(* applied and pushed.  Undo and redo replay entries of the log.  Calls    *)
(* made for one action of the user form a batch whose invalidation indices *)
(* are combined.                                                           *)
(***************************************************************************)
\* Most entries the log holds.
MaxHistory == 2
\* The scripts a history starts from.
HistoryScripts ==
    {from_str(<<BulkText(AutoPlain, NoKeys, NoKeys, Digits(10), 2)>>),
     from_str(<<BulkText("s06-------", NoKeys, NoKeys, Digits(10), 2), CommentText>>),
     from_str(<<BulkText(AutoPlain, NoKeys, NoKeys, Digits(10), 1),
                BulkText(AutoPlain, <<"f", "-", "-", "-", "-", "-">>,
                         <<"j", "-", "-", "1", "-", "-">>, Digits(10), 2)>>)}

\* The texts of the lines an edit inserts, writes or removes.
EditTexts == {BulkText(AutoPlain, NoKeys, NoKeys, Digits(10), 1), CommentText}

\* The operations of the edits: operations on the first frame bulk, the first
\* two lines and the second frame.
EditOperations ==
    {[type |-> "SetFrameCount", bulk_idx |-> 0, from |-> 1, to |-> 2],
     [type |-> "SetFrameCount", bulk_idx |-> 0, from |-> 2, to |-> 1],
     [type |-> "SetYaw", bulk_idx |-> 0, from |-> 10, to |-> 15],
     [type |-> "SetYaw", bulk_idx |-> 0, from |-> 10, to |-> 10],
     [type |-> "Split", frame_idx |-> 1],
     [type |-> "ToggleKey", bulk_idx |-> 0, key |-> "Forward", to |-> TRUE],
     [type |-> "SetLeftRightCount", bulk_idx |-> 0, from |-> 10, to |-> 20]}
    \cup [type : {"Delete"}, line_idx : 0..1, line : EditTexts]
    \cup [type : {"Replace"}, line_idx : {0}, from : EditTexts, to : EditTexts]
    \cup [type : {"Insert"}, line_idx : 0..1, line : EditTexts]

\* The applied entries of a log and its redo tail.
Applied(l, c) == SubSeq(l, 1, c)
RedoTail(l, c) == SubSeq(l, c + 1, Len(l))

\* The combined invalidation index of a batch and the index of one more call:
\* the smaller one, none only when both are none.
Combine(combined, value) ==
    IF combined = None THEN value
    ELSE IF value = None THEN combined
    ELSE Some(Min(Unwrap(combined), Unwrap(value)))

\* The last event of the history: the call, the operation it ran to its end,
\* if any, and the number of entries of the redo tail it discarded.
HistoryCall(fn, ran, discarded) == [fn |-> fn, ran |-> ran, discarded |-> discarded]

\* A batch that starts at script h, and the batch after one more call of
\* direction fn ("apply" for apply and redo, "undo" for undo).
NewBatch(h) == [before |-> h, fn |-> "none", members |-> {}, combined |-> None]
InBatch(b, fn, value) ==
    [b EXCEPT !.fn = fn, !.members = @ \cup {value},
              !.combined = Combine(@, value)]
\* The calls of one action of the user all apply or all undo.
BatchTakes(fn) == batch.fn \in {"none", fn}

HistoryInit ==
    /\ hltas \in HistoryScripts
    /\ input = hltas
    /\ panicked = FALSE
    /\ invalidated = None
    /\ log = <<>> /\ cursor = 0
    /\ last = HistoryCall("new", None, 0)
    /\ batch = NewBatch(hltas)
    /\ op = TestOperation /\ calls = <<>>
    /\ NoEncoding /\ NoCVars /\ NoHooks

\* History.apply(op) with the redo tail left in place.
HistoryApplyKeepsTail(o) ==
    /\ ~panicked
    /\ Len(log) < MaxHistory
    /\ BatchTakes("apply")
    /\ o \in EditOperations /\ StoresOldText(o, hltas)
    /\ LET r == apply(o, hltas)
       IN  /\ hltas' = r.hltas
           /\ panicked' = r.panicked
           /\ invalidated' = r.value
           /\ IF r.panicked
              THEN /\ last' = HistoryCall("apply", None, 0)
                   /\ UNCHANGED <<log, cursor, batch>>
              ELSE /\ last' = HistoryCall("apply", Some(o), Len(log) - cursor)
                   /\ log' = Applied(log, cursor) \o <<o>> \o RedoTail(log, cursor)
                   /\ cursor' = cursor + 1
                   /\ batch' = InBatch(batch, "apply", r.value)
    /\ UNCHANGED <<input, operationVars, encodingVars, cvarVars, hookVars>>

\* History.apply(op): apply the operation of an edit, push it, drop the redo
\* tail.
HistoryApply(o) ==
    /\ ~panicked
    /\ cursor < MaxHistory
    /\ BatchTakes("apply")
    /\ o \in EditOperations /\ StoresOldText(o, hltas)
    /\ LET r == apply(o, hltas)
       IN  /\ hltas' = r.hltas
           /\ panicked' = r.panicked
           /\ invalidated' = r.value
           /\ IF r.panicked
              THEN /\ last' = HistoryCall("apply", None, 0)
                   /\ UNCHANGED <<log, cursor, batch>>
              ELSE /\ last' = HistoryCall("apply", Some(o), Len(log) - cursor)
                   /\ log' = Append(Applied(log, cursor), o)
                   /\ cursor' = cursor + 1
                   /\ batch' = InBatch(batch, "apply", r.value)
    /\ UNCHANGED <<input, operationVars, encodingVars, cvarVars, hookVars>>

\* History.undo(): undo the most recently applied entry and leave it in the
\* redo tail; nothing happens when no entry is applied.
HistoryUndo ==
    /\ ~panicked
    /\ BatchTakes("undo")
    /\ IF cursor = 0
       THEN /\ invalidated' = None
            /\ last' = HistoryCall("undo", None, 0)
            /\ batch' = InBatch(batch, "undo", None)
            /\ UNCHANGED <<hltas, panicked, log, cursor>>
       ELSE LET r == undo(log[cursor], hltas)
            IN  /\ hltas' = r.hltas
                /\ panicked' = r.panicked
                /\ invalidated' = r.value
                /\ last' = HistoryCall("undo", Some(log[cursor]), 0)
                /\ IF r.panicked
                   THEN UNCHANGED <<cursor, batch>>
                   ELSE /\ cursor' = cursor - 1
                        /\ batch' = InBatch(batch, "undo", r.value)
                /\ UNCHANGED log
    /\ UNCHANGED <<input, operationVars, encodingVars, cvarVars, hookVars>>

\* History.redo(): apply the most recently undone entry again and move it
\* back; nothing happens when the redo tail is empty.
HistoryRedo ==
    /\ ~panicked
    /\ BatchTakes("apply")
    /\ IF cursor = Len(log)
       THEN /\ invalidated' = None
            /\ last' = HistoryCall("redo", None, 0)
            /\ batch' = InBatch(batch, "apply", None)
            /\ UNCHANGED <<hltas, panicked, log, cursor>>
       ELSE LET r == apply(log[cursor + 1], hltas)
            IN  /\ hltas' = r.hltas
                /\ panicked' = r.panicked
                /\ invalidated' = r.value
                /\ last' = HistoryCall("redo", Some(log[cursor + 1]), 0)
                /\ IF r.panicked
                   THEN UNCHANGED <<cursor, batch>>
                   ELSE /\ cursor' = cursor + 1
                        /\ batch' = InBatch(batch, "apply", r.value)
                /\ UNCHANGED log
    /\ UNCHANGED <<input, operationVars, encodingVars, cvarVars, hookVars>>

\* The action of the user is over: the consumer takes the combined index and
\* the next call starts a new batch.
EndBatch ==
    /\ ~panicked
    /\ batch.fn # "none"
    /\ batch' = NewBatch(hltas)
    /\ last' = HistoryCall("end", None, 0)
    /\ UNCHANGED <<hltas, input, panicked, invalidated, log, cursor,
                   operationVars, encodingVars, cvarVars, hookVars>>

HistoryNext ==
    \/ \E o \in EditOperations : HistoryApply(o)
    \/ HistoryUndo
    \/ HistoryRedo
    \/ EndBatch

HistorySpec == HistoryInit /\ [][HistoryNext]_vars

(***************************************************************************)
(* C14  Stack discipline of the history.                                   *)
(***************************************************************************)
\* One step of the history keeps the stack discipline and returns what the
\* operation call under it returned.
StackStep ==
    LET applied == Applied(log, cursor)
        tail == RedoTail(log, cursor)
        appliedAfter == Applied(log', cursor')
        tailAfter == RedoTail(log', cursor')
    IN  ~panicked' =>
        CASE last'.fn = "apply" ->
                LET o == Unwrap(last'.ran)
                IN  /\ appliedAfter = Append(applied, o)
                    /\ tailAfter = <<>>
                    /\ hltas' = apply(o, hltas).hltas
                    /\ invalidated' = apply(o, hltas).value
          [] last'.fn = "undo" ->
                IF applied = <<>>
                THEN /\ appliedAfter = applied /\ tailAfter = tail
                     /\ hltas' = hltas /\ invalidated' = None
                ELSE LET o == applied[Len(applied)]
                     IN  /\ appliedAfter = SubSeq(applied, 1, Len(applied) - 1)
                         /\ tailAfter = <<o>> \o tail
                         /\ hltas' = undo(o, hltas).hltas
                         /\ invalidated' = undo(o, hltas).value
          [] last'.fn = "redo" ->
                IF tail = <<>>
                THEN /\ appliedAfter = applied /\ tailAfter = tail
                     /\ hltas' = hltas /\ invalidated' = None
                ELSE LET o == Head(tail)
                     IN  /\ appliedAfter = Append(applied, o)
                         /\ tailAfter = Tail(tail)
                         /\ hltas' = apply(o, hltas).hltas
                         /\ invalidated' = apply(o, hltas).value
          [] OTHER -> log' = log /\ cursor' = cursor /\ hltas' = hltas

\* C14: every step of the history keeps the stack discipline: apply appends
\* the operation to the applied entries and empties the redo tail; undo moves
\* the most recently applied entry to the front of the redo tail and redo
\* moves it back; undo with nothing applied and redo with an empty tail
\* change nothing; and every call returns the invalidation index the
\* operation call under it returned.
StackDiscipline == [][StackStep]_vars

\* An edit was applied after an undo and discarded the undone entry: no redo
\* is possible.
StackDisciplineWitness ==
    /\ ~panicked /\ last.fn = "apply" /\ last.discarded >= 1
    /\ cursor = Len(log) /\ cursor >= 1
    /\ log[cursor] = Unwrap(last.ran)
    /\ hltas # input

(***************************************************************************)
(* C16  Batched invalidation.                                              *)
(***************************************************************************)
\* The smallest index among the values the calls of a batch returned; none
\* when every call returned none.
MinIndex(members) ==
    LET indices == {Unwrap(v) : v \in members \ {None}}
    IN  IF indices = {} THEN None
        ELSE Some(CHOOSE m \in indices : \A n \in indices : m <= n)

\* C16: the combined invalidation index of a batch of calls is the smallest
\* index a call of the batch returned, none only when every call returned
\* none, and every frame before it has the same content in the script the
\* batch started from and in the script it left.
BatchInvalidation ==
    ~panicked =>
        /\ batch.combined = MinIndex(batch.members)
        /\ SoundInvalidation(batch.before, hltas, batch.combined)

\* A batch of two applied operations that returned different indices, the
\* first one the larger, changed frames of the script.
BatchInvalidationWitness ==
    /\ ~panicked /\ batch.fn = "apply" /\ cursor = 2 /\ last.fn = "apply"
    /\ batch.before = input
    /\ apply(log[1], input).value # None
    /\ invalidated # None
    /\ Unwrap(invalidated) < Unwrap(apply(log[1], input).value)
    /\ batch.combined = invalidated
    /\ Timeline(hltas) # Timeline(batch.before)

(***************************************************************************)
(* C18  The history and the script agree.                                  *)
(***************************************************************************)
\* Script h with the operations of `ops` applied in order.
RECURSIVE Replay(_, _)
Replay(h, ops) ==
    IF ops = <<>> THEN h ELSE Replay(apply(Head(ops), h).hltas, Tail(ops))

\* C18: no undo or redo of the history fails a precondition; the script is
\* the script the history started from with the applied entries of the log
\* applied in order, so it is that script when every entry is undone; and an
\* undo followed by a redo, or a redo followed by an undo, leaves the script
\* as it is.
HistoryConsistent ==
    /\ last.fn \in {"undo", "redo"} => ~panicked
    /\ ~panicked =>
        /\ hltas = Replay(input, Applied(log, cursor))
        /\ cursor = 0 => hltas = input
        /\ cursor > 0 =>
            LET u == undo(log[cursor], hltas)
                a == apply(log[cursor], u.hltas)
            IN  ~u.panicked /\ ~a.panicked /\ a.hltas = hltas
        /\ cursor < Len(log) =>
            LET a == apply(log[cursor + 1], hltas)
                u == undo(log[cursor + 1], a.hltas)
            IN  ~a.panicked /\ ~u.panicked /\ u.hltas = hltas

\* Two edits, the first one a Delete, were applied and both undone: the
\* script is the one the history started from.
HistoryConsistentWitness ==
    /\ ~panicked /\ last.fn = "undo" /\ cursor = 0 /\ Len(log) = 2
    /\ log[1].type = "Delete"
    /\ Replay(input, log) # input
    /\ Replay(input, log) # Replay(input, <<log[1]>>)
    /\ hltas = input

(***************************************************************************)
(* The stored encoding of an operation (serde derive, bincode): the index  *)
(* of the variant in the declaration of the enum as a 32-bit integer, then *)
(* the fields in the order of their declaration; integers little-endian at *)
(* a fixed width, a string as its 64-bit length and its content.           *)
(***************************************************************************)
\* The variants of Operation and of Key in the order of their declaration.
Variants ==
    <<"SetFrameCount", "SetYaw", "Delete", "Split", "Replace", "ToggleKey",
      "Insert", "SetLeftRightCount">>
KeyVariants ==
    <<"Forward", "Left", "Right", "Back", "Up", "Down",
      "Jump", "Duck", "Use", "Attack1", "Attack2", "Reload">>

\* The variants of later versions: variants appended to the declaration.
LaterVariants ==
    {Variants, Variants \o <<"Added1">>, Variants \o <<"Added1", "Added2">>}

\* The index of a variant, counted from the end of the declaration.
VariantIndexFromEnd(variants, name) ==
    Len(variants) - (CHOOSE i \in 1..Len(variants) : variants[i] = name)

\* The index serde gives a variant: its position in the declaration, from 0.
VariantIndex(variants, name) ==
    (CHOOSE i \in 1..Len(variants) : variants[i] = name) - 1

\* An integer as `width` little-endian bytes, and back.
RECURSIVE ToLE(_, _)
ToLE(n, width) ==
    IF width = 0 THEN <<>> ELSE <<n % 256>> \o ToLE(n \div 256, width - 1)
RECURSIVE FromLE(_)
FromLE(bytes) ==
    IF bytes = <<>> THEN 0 ELSE bytes[1] + 256 * FromLE(Tail(bytes))

\* The bytes of the f32 values of the model (10.0 is 0x41200000, 15.0 is
\* 0x41700000), little-endian.
F32Bytes(x) == IF x = 10 THEN <<0, 0, 32, 65>> ELSE <<0, 0, 112, 65>>
F32FromBytes(bytes) == CHOOSE x \in Yaws : F32Bytes(x) = bytes

EncodeUsize(n) == ToLE(n, 8)
EncodeU32(n) == ToLE(n, 4)
EncodeBool(b) == IF b THEN <<1>> ELSE <<0>>
EncodeKey(key) == EncodeU32(VariantIndex(KeyVariants, key))
EncodeString(text) == EncodeUsize(Len(text)) \o text

\* bincode::serialize(&op).
Encode(o) ==
    EncodeU32(VariantIndex(Variants, o.type)) \o
    CASE o.type \in {"SetFrameCount", "SetLeftRightCount"} ->
            EncodeUsize(o.bulk_idx) \o EncodeU32(o.from) \o EncodeU32(o.to)
      [] o.type = "SetYaw" ->
            EncodeUsize(o.bulk_idx) \o F32Bytes(o.from) \o F32Bytes(o.to)
      [] o.type \in {"Delete", "Insert"} ->
            EncodeUsize(o.line_idx) \o EncodeString(o.line)
      [] o.type = "Split" -> EncodeUsize(o.frame_idx)
      [] o.type = "Replace" ->
            EncodeUsize(o.line_idx) \o EncodeString(o.from) \o EncodeString(o.to)
      [] o.type = "ToggleKey" ->
            EncodeUsize(o.bulk_idx) \o EncodeKey(o.key) \o EncodeBool(o.to)

\* The bytes of `bytes` from position `at` (1-based) on, `n` of them.
Bytes(bytes, at, n) == SubSeq(bytes, at, at + n - 1)
\* The string that starts at position `at`: its content and its end.
DecodeString(bytes, at) ==
    LET len == FromLE(Bytes(bytes, at, 8))
    IN  [text |-> Bytes(bytes, at + 8, len), next |-> at + 8 + len]

DecodeFails == [ok |-> FALSE]
\* bincode::deserialize(bytes) by a version whose enum declares `variants`.
Decode(variants, bytes) ==
    LET tag == FromLE(Bytes(bytes, 1, 4))
        name == variants[tag + 1]
        idx == FromLE(Bytes(bytes, 5, 8))
    IN  IF Len(bytes) < 4 \/ tag >= Len(variants) THEN DecodeFails
        ELSE CASE name \in {"SetFrameCount", "SetLeftRightCount"} ->
                    [type |-> name, bulk_idx |-> idx,
                     from |-> FromLE(Bytes(bytes, 13, 4)),
                     to |-> FromLE(Bytes(bytes, 17, 4))]
               [] name = "SetYaw" ->
                    [type |-> name, bulk_idx |-> idx,
                     from |-> F32FromBytes(Bytes(bytes, 13, 4)),
                     to |-> F32FromBytes(Bytes(bytes, 17, 4))]
               [] name \in {"Delete", "Insert"} ->
                    [type |-> name, line_idx |-> idx,
                     line |-> DecodeString(bytes, 13).text]
               [] name = "Split" -> [type |-> name, frame_idx |-> idx]
               [] name = "Replace" ->
                    LET from == DecodeString(bytes, 13)
                    IN  [type |-> name, line_idx |-> idx, from |-> from.text,
                         to |-> DecodeString(bytes, from.next).text]
               [] name = "ToggleKey" ->
                    [type |-> name, bulk_idx |-> idx,
                     key |-> KeyVariants[FromLE(Bytes(bytes, 13, 4)) + 1],
                     to |-> bytes[17] = 1]
               [] OTHER -> DecodeFails

\* An operation is stored by this version and loaded by this or a later one.
EncodingInit ==
    /\ op \in Operations
    /\ stored = None /\ decoded = None
    /\ hltas = TestScript /\ input = hltas
    /\ calls = <<>> /\ panicked = FALSE /\ invalidated = None
    /\ NoHistory /\ NoCVars /\ NoHooks

Store ==
    /\ stored = None
    /\ stored' = Some(Encode(op))
    /\ UNCHANGED <<hltas, input, panicked, invalidated, decoded,
                   operationVars, historyVars, cvarVars, hookVars>>

Load ==
    /\ stored # None /\ decoded = None
    /\ \E variants \in LaterVariants :
        decoded' = Some([variants |-> variants,
                         loaded |-> Decode(variants, Unwrap(stored))])
    /\ UNCHANGED <<hltas, input, panicked, invalidated, stored,
                   operationVars, historyVars, cvarVars, hookVars>>

EncodingNext == Store \/ Load

EncodingSpec == EncodingInit /\ [][EncodingNext]_vars

(***************************************************************************)
(* C15  Encoding evolution.                                                *)
(***************************************************************************)
\* The position of each variant in the stored encoding.
StoredIndex(name) ==
    CASE name = "SetFrameCount" -> 0
      [] name = "SetYaw" -> 1
      [] name = "Delete" -> 2
      [] name = "Split" -> 3
      [] name = "Replace" -> 4
      [] name = "ToggleKey" -> 5
      [] name = "Insert" -> 6
      [] name = "SetLeftRightCount" -> 7

MaxCVars == 2

\* The variables of the modules and the variable the engine registers itself.
ModuleCVars == 1..MaxCVars
EngineCVars == {MaxCVars + 1}
AllCVars == ModuleCVars \cup EngineCVars

\* The default value of a variable, "0" or "1", as the number the engine
\* parses it to.
DefaultValue(c) == c % 2

\* CVar::new(name, default_value).
new(c) == [string |-> "default", value |-> 0, next |-> None]

\* CVar::is_registered.
is_registered(st, c) == st.raw[c].string # "default"

\* The variables of the engine's list in order: the chain of `next` from a
\* pointer on, at most `fuel` of them.
RECURSIVE Chain(_, _, _)
Chain(st, ptr, fuel) ==
    IF ptr = None \/ fuel = 0 THEN <<>>
    ELSE <<Unwrap(ptr)>> \o Chain(st, st.raw[Unwrap(ptr)].next, fuel - 1)
List(st) == Chain(st, st.cvar_vars, Cardinality(AllCVars) + 1)
Linked(st, c) == \E i \in 1..Len(List(st)) : List(st)[i] = c

\* The outcome of a call: it returned leaving state st, having passed the
\* pointers of `freed` to Z_Free, or it panicked.
Returned(st, freed, value) ==
    [panicked |-> FALSE, st |-> st, freed |-> freed, value |-> value]
Panicked(st) == [panicked |-> TRUE, st |-> st, freed |-> <<>>, value |-> None]

\* CVar::as_bool.
as_bool(st, c) ==
    IF ~is_registered(st, c) THEN Panicked(st)
    ELSE Returned(st, <<>>, Some(st.raw[c].value # 0))

\* The engine's Cvar_RegisterVariable: copy the string, parse the value and
\* link the variable in after the first `pos` variables of the list.
Cvar_RegisterVariable(st, c, pos) ==
    LET list == List(st)
        succ == IF pos < Len(list) THEN Some(list[pos + 1]) ELSE None
        linked == [st.raw EXCEPT ![c] = [string |-> "zone",
                                         value |-> DefaultValue(c),
                                         next |-> succ]]
    IN  [raw |-> IF pos = 0 THEN linked
                 ELSE [linked EXCEPT ![list[pos]].next = Some(c)],
         cvar_vars |-> IF pos = 0 THEN Some(c) ELSE st.cvar_vars,
         zone |-> st.zone \cup {c}]

\* register without the assertion.
register_unchecked(st, c, pos) ==
    Returned(Cvar_RegisterVariable(st, c, pos), <<>>, None)

\* register(marker, cvar); pos is the engine's choice.
register(st, c, pos) ==
    IF is_registered(st, c) THEN Panicked(st)
    ELSE Returned(Cvar_RegisterVariable(st, c, pos), <<>>, None)

\* mark_as_not_registered(marker, cvar).
mark_as_not_registered(st, c) ==
    [st EXCEPT !.raw[c].string = "default"]

\* The engine's Z_Free on the string of variable c.
Z_Free(st, c) == [st EXCEPT !.zone = @ \ {c}]

\* What a pointer to a pointer points at: prev_ptr is None for &cvar_vars
\* and Some(x) for &x.next.
Deref(st, prev_ptr) ==
    IF prev_ptr = None THEN st.cvar_vars ELSE st.raw[Unwrap(prev_ptr)].next

\* The loop of deregister: follow the pointers from prev_ptr until one
\* points at c.  It ends with the pointer found, with the failed assertion
\* on a null `next`, or with the read through a null *prev_ptr.
RECURSIVE FindPrevPtr(_, _, _, _)
FindPrevPtr(st, prev_ptr, c, fuel) ==
    LET cur == Deref(st, prev_ptr)
    IN  IF cur = Some(c) THEN [kind |-> "found", prev_ptr |-> prev_ptr]
        ELSE IF cur = None THEN [kind |-> "null"]
        ELSE IF st.raw[Unwrap(cur)].next = None THEN [kind |-> "assert"]
        ELSE IF fuel = 0 THEN [kind |-> "loops"]
        ELSE FindPrevPtr(st, cur, c, fuel - 1)

\* *prev_ptr = null, whatever followed the variable.
AssignNull(st, prev_ptr, value) ==
    IF prev_ptr = None THEN [st EXCEPT !.cvar_vars = None]
    ELSE [st EXCEPT !.raw[Unwrap(prev_ptr)].next = None]

\* *prev_ptr = value.
Assign(st, prev_ptr, value) ==
    IF prev_ptr = None THEN [st EXCEPT !.cvar_vars = value]
    ELSE [st EXCEPT !.raw[Unwrap(prev_ptr)].next = value]

\* deregister that leaves the engine's string allocated.
deregister_no_free(st, c) ==
    IF ~is_registered(st, c) THEN Panicked(st)
    ELSE LET found == FindPrevPtr(st, None, c, Cardinality(AllCVars))
         IN  IF found.kind # "found" THEN Panicked(st)
             ELSE LET unlinked == Assign(st, found.prev_ptr, st.raw[c].next)
                  IN  Returned(mark_as_not_registered(unlinked, c), <<>>, None)

\* deregister(marker, cvar).  A read through a null pointer ends the process
\* like a panic does.
deregister(st, c) ==
    IF ~is_registered(st, c) THEN Panicked(st)
    ELSE LET found == FindPrevPtr(st, None, c, Cardinality(AllCVars))
         IN  IF found.kind # "found" THEN Panicked(st)
             ELSE LET unlinked == Assign(st, found.prev_ptr, st.raw[c].next)
                      freed == Z_Free(unlinked, c)
                  IN  Returned(mark_as_not_registered(freed, c), <<c>>, None)

\* The console-variable state as the functions above take it.
St == [raw |-> raw, cvar_vars |-> cvar_vars, zone |-> zone]

\* A call seen from the state it left: the function, the variable, and
\* whether it was registered, the engine's list and the live strings when the
\* call began; the pointers it freed and the value it returned.
CVarCall(fn, c, r) ==
    [fn |-> fn, cvar |-> c, registered |-> is_registered(St, c),
     list |-> List(St), zone |-> zone, freed |-> r.freed, value |-> r.value]

\* The engine did something on its own, to its variable e.
EngineCall(fn, e) == CVarCall(fn, e, Returned(St, <<>>, None))

\* The state a call leaves.
Leaves(fn, c, r) ==
    /\ raw' = r.st.raw
    /\ cvar_vars' = r.st.cvar_vars
    /\ zone' = r.st.zone
    /\ panicked' = r.panicked
    /\ cvar_call' = CVarCall(fn, c, r)

\* Every CVar is a static created by CVar::new; the engine is not yet
\* initialised.
CVarInit ==
    /\ raw = [c \in AllCVars |-> new(c)]
    /\ cvar_vars = None /\ zone = {}
    /\ engine_up = FALSE
    /\ cvar_call = [fn |-> "new", cvar |-> 1, registered |-> FALSE, list |-> <<>>,
                    zone |-> {}, freed |-> <<>>, value |-> None]
    /\ panicked = FALSE
    /\ hltas = TestScript /\ input = hltas /\ invalidated = None
    /\ op = TestOperation /\ calls = <<>>
    /\ NoHistory /\ NoEncoding /\ NoHooks

\* The engine's Memory_Init: the engine starts with an empty list.  It runs
\* when no variable of the modules is registered (the Host_Shutdown hook has
\* marked them all).
EngineMemoryInit ==
    /\ ~panicked /\ ~engine_up
    /\ \A c \in ModuleCVars : ~is_registered(St, c)
    /\ engine_up' = TRUE
    /\ cvar_vars' = None /\ zone' = {}
    /\ cvar_call' = EngineCall("Memory_Init", MaxCVars + 1)
    /\ UNCHANGED <<raw, panicked, hltas, input, invalidated,
                   operationVars, historyVars, encodingVars, hookVars>>

\* The engine registers a variable of its own.
EngineRegisters(e) ==
    /\ ~panicked /\ engine_up
    /\ e \in EngineCVars /\ ~Linked(St, e)
    /\ \E pos \in 0..Len(List(St)) :
        LET st == Cvar_RegisterVariable(St, e, pos)
        IN  raw' = st.raw /\ cvar_vars' = st.cvar_vars /\ zone' = st.zone
    /\ cvar_call' = EngineCall("Cvar_RegisterVariable", e)
    /\ UNCHANGED <<engine_up, panicked, hltas, input, invalidated,
                   operationVars, historyVars, encodingVars, hookVars>>

\* register(marker, cvar), called while the engine can register variables.
Register(c) ==
    /\ ~panicked /\ engine_up
    /\ c \in ModuleCVars
    /\ \E pos \in 0..Len(List(St)) : Leaves("register", c, register(St, c, pos))
    /\ UNCHANGED <<engine_up, hltas, input, invalidated,
                   operationVars, historyVars, encodingVars, hookVars>>

\* deregister(marker, cvar), called while the engine can de-register them.
Deregister(c) ==
    /\ ~panicked /\ engine_up
    /\ c \in ModuleCVars
    /\ Leaves("deregister", c, deregister(St, c))
    /\ UNCHANGED <<engine_up, hltas, input, invalidated,
                   operationVars, historyVars, encodingVars, hookVars>>

\* cvar.as_bool(marker).
AsBool(c) ==
    /\ ~panicked
    /\ c \in ModuleCVars
    /\ Leaves("as_bool", c, as_bool(St, c))
    /\ UNCHANGED <<engine_up, hltas, input, invalidated,
                   operationVars, historyVars, encodingVars, hookVars>>

\* mark_as_not_registered(marker, cvar), called when the engine holds no
\* reference to the variable.
MarkAsNotRegistered(c) ==
    /\ ~panicked
    /\ c \in ModuleCVars /\ ~Linked(St, c)
    /\ Leaves("mark_as_not_registered", c,
              Returned(mark_as_not_registered(St, c), <<>>, None))
    /\ UNCHANGED <<engine_up, hltas, input, invalidated,
                   operationVars, historyVars, encodingVars, hookVars>>

\* The engine's Host_Shutdown: the engine drops its list and frees its
\* memory; the cvar_s of the modules keep what they held.
EngineHostShutdown ==
    /\ ~panicked /\ engine_up
    /\ engine_up' = FALSE
    /\ cvar_vars' = None /\ zone' = {}
    /\ raw' = [c \in AllCVars |-> IF c \in EngineCVars THEN new(c) ELSE raw[c]]
    /\ cvar_call' = EngineCall("Host_Shutdown", MaxCVars + 1)
    /\ UNCHANGED <<panicked, hltas, input, invalidated,
                   operationVars, historyVars, encodingVars, hookVars>>

CVarNext ==
    \/ EngineMemoryInit
    \/ \E e \in EngineCVars : EngineRegisters(e)
    \/ \E c \in ModuleCVars : Register(c)
    \/ \E c \in ModuleCVars : Deregister(c)
    \/ \E c \in ModuleCVars : AsBool(c)
    \/ \E c \in ModuleCVars : MarkAsNotRegistered(c)
    \/ EngineHostShutdown

CVarSpec == CVarInit /\ [][CVarNext]_vars

Without(s, x) == SelectSeq(s, LAMBDA y : y # x)

\* C20: when deregister is called on a registered variable of the engine's
\* list and returns, the list is the list before without that variable, the
\* other variables in the same order; the head, or the `next` of the
\* variable before it, points at the variable that followed it, null when it
\* was last; its engine-allocated string was passed to Z_Free once and is no
\* longer allocated; and the variable is not registered.
DeregisterUnlinks ==
    LET c == cvar_call.cvar
        before == cvar_call.list
        i == CHOOSE k \in 1..Len(before) : before[k] = c
        succ == IF i < Len(before) THEN Some(before[i + 1]) ELSE None
    IN  (/\ cvar_call.fn = "deregister" /\ ~panicked
         /\ cvar_call.registered
         /\ \E k \in 1..Len(before) : before[k] = c) =>
            /\ List(St) = Without(before, c)
            /\ Len(List(St)) = Len(before) - 1
            /\ IF i = 1 THEN cvar_vars = succ ELSE raw[before[i - 1]].next = succ
            /\ cvar_call.freed = <<c>>
            /\ c \in cvar_call.zone /\ zone = cvar_call.zone \ {c}
            /\ ~is_registered(St, c)

\* The middle variable of a list of three was de-registered.
DeregisterUnlinksWitness ==
    /\ cvar_call.fn = "deregister" /\ ~panicked
    /\ Len(cvar_call.list) = 3 /\ cvar_call.list[2] = cvar_call.cvar
    /\ List(St) = <<cvar_call.list[1], cvar_call.list[3]>>
    /\ zone = {cvar_call.list[1], cvar_call.list[3]}

(***************************************************************************)
(* C21  The list search of deregister ends at the variable.                *)
(***************************************************************************)
\* C21: while the engine is up, the walk of deregister from cvar_vars along
\* the `next` pointers reaches every registered variable, wherever it is in
\* the list: it ends at the head when the variable is first and at the
\* `next` of the variable before it otherwise, after as many steps as there
\* are variables before it, with no `next` found null and no variable met
\* twice; so a deregister of a registered variable does not panic, whatever
\* register and deregister calls came before.
SearchTerminates ==
    /\ Len(List(St)) <= Cardinality(AllCVars)
    /\ \A c \in ModuleCVars :
        (engine_up /\ is_registered(St, c)) =>
            LET list == List(St)
                found == FindPrevPtr(St, None, c, Cardinality(AllCVars))
                i == CHOOSE k \in 1..Len(list) : list[k] = c
            IN  /\ \E k \in 1..Len(list) : list[k] = c
                /\ found.kind = "found"
                /\ found.prev_ptr = IF i = 1 THEN None ELSE Some(list[i - 1])
    /\ (cvar_call.fn = "deregister" /\ cvar_call.registered) => ~panicked

\* The last variable of a list of three was de-registered: the walk passed
\* a variable of the modules and one more before it reached it.
SearchTerminatesWitness ==
    /\ cvar_call.fn = "deregister" /\ ~panicked
    /\ Len(cvar_call.list) = 3 /\ cvar_call.list[3] = cvar_call.cvar
    /\ cvar_call.list[1] \in ModuleCVars
    /\ List(St) = <<cvar_call.list[1], cvar_call.list[2]>>

(***************************************************************************)
(* The hooks (src/hooks/engine.rs).  Memory_Init and Host_Shutdown replace *)
(* the engine's functions of the same names and call them through the      *)
(* pointers that find_pointers resolves.  A hook runs to its end or aborts *)
(* the process (abort_on_panic); what it did is kept in `events`, each     *)
(* event with the pointers that were set when it happened.  The steps of a *)
(* hook take the state h of the hook to the set of states the step can     *)
(* leave, the choices being the engine's.                                  *)
(***************************************************************************)
\* Host_Shutdown hooks a run goes through.
MaxShutdowns == 2

\* The statics of engine.rs.
Pointers ==
    {"CMD_ADDMALLOCCOMMAND", "CMD_FUNCTIONS", "CON_PRINTF",
     "CVAR_REGISTERVARIABLE", "CVAR_VARS", "HOST_SHUTDOWN", "MEMORY_INIT",
     "MEM_FREE", "V_FADEALPHA", "Z_FREE"}

\* What handle.sym can find: every symbol, none, or every symbol but one:
\* but one a hook calls through, but one more that CVars::is_enabled asks
\* for, or but one that it does not ask for.
Resolutions ==
    {Pointers, {}}
    \cup {Pointers \ {p} : p \in {"MEMORY_INIT", "HOST_SHUTDOWN", "CVAR_VARS",
                                   "V_FADEALPHA"}}

\* MODULES, in order, and the module that owns a variable.
MODULES == <<"fade_remove", "tas_studio">>
Owner(c) == MODULES[(c % 2) + 1]

\* module.cvars() of every module, in the order of the loops over MODULES.
cvars ==
    SelectSeq([c \in ModuleCVars |-> c], LAMBDA c : Owner(c) = MODULES[1])
    \o SelectSeq([c \in ModuleCVars |-> c], LAMBDA c : Owner(c) = MODULES[2])

\* CVars::is_enabled.
is_enabled(ptrs) ==
    {"MEMORY_INIT", "HOST_SHUTDOWN", "CVAR_REGISTERVARIABLE", "Z_FREE",
     "CVAR_VARS"} \subseteq ptrs

\* The state of a hook that starts now.
Hook ==
    [st |-> St, engine_up |-> engine_up, pointers |-> pointers,
     enabled |-> enabled, events |-> <<>>, panicked |-> FALSE]

\* The hook did fn (on variable c, 0 when on none).
Log(h, fn, c) ==
    [h EXCEPT !.events = Append(@, [fn |-> fn, cvar |-> c,
                                    pointers |-> h.pointers])]

\* abort_on_panic: a panic of the step just logged ends the process.
Abort(h) == [Log(h, "abort", 0) EXCEPT !.panicked = TRUE]

\* The next step of a hook, from every state the steps before it can leave:
\* step[h] is what the step can leave from h.
Then(S, step) == UNION {IF h.panicked THEN {h} ELSE step[h] : h \in S}

\* find_pointers: dl::open(..).unwrap(), then every static is set to what
\* handle.sym found; the modules in `on` are the enabled ones from then on.
find_pointers(h, opened, found, on) ==
    IF ~opened THEN {Abort(Log(h, "find_pointers", 0))}
    ELSE {Log([h EXCEPT !.pointers = found, !.enabled = on],
              "find_pointers", 0)}

\* reset_pointers: every static is unset, and with it whatever made a module
\* enabled.
reset_pointers(h) ==
    {Log([h EXCEPT !.pointers = {}, !.enabled = {}], "reset_pointers", 0)}

\* MEMORY_INIT.get(marker)(buf, size): the engine starts with an empty list
\* and may register a variable of its own.
MEMORY_INIT(h) ==
    LET l == Log(h, "MEMORY_INIT", 0)
        empty == [h.st EXCEPT !.cvar_vars = None, !.zone = {}]
    IN  IF "MEMORY_INIT" \notin h.pointers THEN {Abort(l)}
        ELSE {[l EXCEPT !.st = st, !.engine_up = TRUE] :
                st \in {empty} \cup {Cvar_RegisterVariable(empty, e, 0) :
                                        e \in EngineCVars}}

\* HOST_SHUTDOWN.get(marker)(): the engine drops its list and its memory.
HOST_SHUTDOWN(h) ==
    LET l == Log(h, "HOST_SHUTDOWN", 0)
    IN  IF "HOST_SHUTDOWN" \notin h.pointers THEN {Abort(l)}
        ELSE {[l EXCEPT !.engine_up = FALSE,
                        !.st = [raw |-> [c \in AllCVars |->
                                            IF c \in EngineCVars THEN new(c)
                                            ELSE h.st.raw[c]],
                                cvar_vars |-> None, zone |-> {}]]}

\* The loops of register_all_cvars: register(marker, cvar) for every
\* variable of cs in order, the engine linking each where it chooses.
RECURSIVE register_each(_, _)
register_each(h, cs) ==
    IF cs = <<>> THEN {h}
    ELSE LET l == Log(h, "register", Head(cs))
             called == {LET r == register(h.st, Head(cs), pos)
                        IN  IF r.panicked THEN Abort(l)
                            ELSE [l EXCEPT !.st = r.st] :
                          pos \in 0..Len(List(h.st))}
         IN  Then(called, [x \in called |-> register_each(x, Tail(cs))])

\* register_all_cvars.
register_all_cvars(h) ==
    LET l == Log(h, "register_all_cvars", 0)
    IN  IF ~is_enabled(l.pointers) THEN {l} ELSE register_each(l, cvars)

\* The loops of deregister_disabled_module_cvars over the variables cs.
RECURSIVE deregister_each(_, _)
deregister_each(h, cs) ==
    IF cs = <<>> THEN {h}
    ELSE LET l == Log(h, "deregister", Head(cs))
             r == deregister(h.st, Head(cs))
         IN  IF r.panicked THEN {Abort(l)}
             ELSE deregister_each([l EXCEPT !.st = r.st], Tail(cs))

\* deregister_disabled_module_cvars that skips the variables of the disabled
\* modules instead.
deregister_enabled_module_cvars(h) ==
    LET l == Log(h, "deregister_disabled_module_cvars", 0)
    IN  IF ~is_enabled(l.pointers) THEN {l}
        ELSE deregister_each(l, SelectSeq(cvars,
                                          LAMBDA c : Owner(c) \in h.enabled))

\* deregister_disabled_module_cvars, which skips the variables of the
\* enabled modules.
deregister_disabled_module_cvars(h) ==
    LET l == Log(h, "deregister_disabled_module_cvars", 0)
    IN  IF ~is_enabled(l.pointers) THEN {l}
        ELSE deregister_each(l, SelectSeq(cvars,
                                          LAMBDA c : Owner(c) \notin h.enabled))

\* The loops of mark_all_cvars_as_not_registered over the variables cs.
RECURSIVE mark_each(_, _)
mark_each(h, cs) ==
    IF cs = <<>> THEN h
    ELSE mark_each([Log(h, "mark_as_not_registered", Head(cs))
                      EXCEPT !.st = mark_as_not_registered(h.st, Head(cs))],
                   Tail(cs))

\* mark_all_cvars_as_not_registered that marks no variable.
mark_no_cvars(h) == {Log(h, "mark_all_cvars_as_not_registered", 0)}

\* mark_all_cvars_as_not_registered.
mark_all_cvars_as_not_registered(h) ==
    LET l == Log(h, "mark_all_cvars_as_not_registered", 0)
    IN  IF ~is_enabled(l.pointers) THEN {l} ELSE {mark_each(l, cvars)}

\* A call fn into modules/commands.rs.
commands(h, fn) == {Log(h, fn, 0)}

\* The Memory_Init hook.
Memory_Init(h, opened, found, on) ==
    LET s0 == {Log(h, "Memory_Init", 0)}
        s1 == Then(s0, [x \in s0 |-> find_pointers(x, opened, found, on)])
        s2 == Then(s1, [x \in s1 |-> MEMORY_INIT(x)])
        s3 == Then(s2, [x \in s2 |-> register_all_cvars(x)])
        s4 == Then(s3, [x \in s3 |-> commands(x, "register_all_commands")])
        s5 == Then(s4, [x \in s4 |-> deregister_disabled_module_cvars(x)])
        s6 == Then(s5, [x \in s5 |->
                        commands(x, "deregister_disabled_module_commands")])
    IN  Then(s6, [x \in s6 |-> {Log(x, "return", 0)}])

\* The Host_Shutdown hook with the pointers reset before the variables are
\* marked.
Host_Shutdown_resets_first(h) ==
    LET s0 == {Log(h, "Host_Shutdown", 0)}
        s1 == Then(s0, [x \in s0 |-> commands(x, "deregister_all_commands")])
        s2 == Then(s1, [x \in s1 |-> HOST_SHUTDOWN(x)])
        s3 == Then(s2, [x \in s2 |-> reset_pointers(x)])
        s4 == Then(s3, [x \in s3 |-> mark_all_cvars_as_not_registered(x)])
    IN  Then(s4, [x \in s4 |-> {Log(x, "return", 0)}])

\* The Host_Shutdown hook.
Host_Shutdown(h) ==
    LET s0 == {Log(h, "Host_Shutdown", 0)}
        s1 == Then(s0, [x \in s0 |-> commands(x, "deregister_all_commands")])
        s2 == Then(s1, [x \in s1 |-> HOST_SHUTDOWN(x)])
        s3 == Then(s2, [x \in s2 |-> mark_all_cvars_as_not_registered(x)])
        s4 == Then(s3, [x \in s3 |-> reset_pointers(x)])
    IN  Then(s4, [x \in s4 |-> {Log(x, "return", 0)}])

\* The state a hook leaves.
HookLeaves(h) ==
    /\ raw' = h.st.raw /\ cvar_vars' = h.st.cvar_vars /\ zone' = h.st.zone
    /\ engine_up' = h.engine_up
    /\ pointers' = h.pointers /\ enabled' = h.enabled
    /\ events' = h.events /\ panicked' = h.panicked
    /\ cvar_call' = [fn |-> h.events[1].fn, cvar |-> MaxCVars + 1,
                     registered |-> FALSE, list |-> List(h.st),
                     zone |-> h.st.zone, freed |-> <<>>, value |-> None]

\* The engine calls Memory_Init when it starts.
MemoryInitHook ==
    /\ ~panicked /\ ~engine_up
    /\ \E found \in Resolutions, on \in SUBSET {MODULES[i] : i \in 1..Len(MODULES)} :
        \E h \in Memory_Init(Hook, TRUE, found, on)
                    \cup Memory_Init(Hook, FALSE, found, on) : HookLeaves(h)
    /\ UNCHANGED <<shutdowns, hltas, input, invalidated,
                   operationVars, historyVars, encodingVars>>

\* The engine calls Host_Shutdown when it stops.
HostShutdownHook ==
    /\ ~panicked /\ engine_up
    /\ shutdowns < MaxShutdowns
    /\ \E h \in Host_Shutdown(Hook) :
        /\ HookLeaves(h)
        /\ shutdowns' = IF h.panicked THEN shutdowns ELSE shutdowns + 1
    /\ UNCHANGED <<hltas, input, invalidated,
                   operationVars, historyVars, encodingVars>>

HookNext ==
    \/ MemoryInitHook
    \/ \E e \in EngineCVars : EngineRegisters(e)
    \/ HostShutdownHook

\* At the start every CVar is a static created by CVar::new, every pointer is
\* Function::empty() or Variable::empty(), and the engine has not started.
HookSpec == CVarInit /\ [][HookNext]_vars

(***************************************************************************)
(* C22  The registration state the Memory_Init hook leaves.                *)
(***************************************************************************)
\* C22: when the Memory_Init hook has returned with the CVars module
\* enabled, a console variable is registered (and in the engine's list)
\* exactly when its module is enabled: the hook registered every variable
\* once, then de-registered once each variable of a disabled module and no
\* other, every register before every deregister, and it did not abort.
\* register, deregister and mark_as_not_registered are only ever called by
\* the hooks with the CVars module enabled, and while it is not enabled no
\* variable is registered.
PostInitialisation ==
    LET at(fn, c) == {i \in 1..Len(events) :
                        events[i].fn = fn /\ events[i].cvar = c}
        returned(fn) == /\ events # <<>> /\ events[1].fn = fn
                        /\ events[Len(events)].fn = "return"
    IN  /\ (returned("Memory_Init") /\ is_enabled(pointers)) =>
            /\ \A c \in ModuleCVars :
                /\ is_registered(St, c) <=> Owner(c) \in enabled
                /\ Linked(St, c) <=> Owner(c) \in enabled
                /\ Cardinality(at("register", c)) = 1
                /\ Cardinality(at("deregister", c))
                    = IF Owner(c) \in enabled THEN 0 ELSE 1
                /\ \A d \in ModuleCVars :
                    \A i \in at("register", c), j \in at("deregister", d) : i < j
            /\ at("abort", 0) = {}
        /\ \A i \in 1..Len(events) :
            events[i].fn \in {"register", "deregister", "mark_as_not_registered"}
                => is_enabled(events[i].pointers)
        /\ ~is_enabled(pointers) => \A c \in ModuleCVars : ~is_registered(St, c)

\* The Memory_Init hook returned with the CVars module enabled and one of
\* the two modules disabled: its variable was registered and de-registered,
\* and the list holds the other module's variable and the engine's.
PostInitialisationWitness ==
    /\ events # <<>> /\ events[1].fn = "Memory_Init"
    /\ events[Len(events)].fn = "return"
    /\ is_enabled(pointers) /\ enabled = {MODULES[1]}
    /\ \E i \in 1..Len(events) : events[i].fn = "deregister"
    /\ \E c \in ModuleCVars : is_registered(St, c)
    /\ \E c \in ModuleCVars : ~is_registered(St, c)
    /\ Len(List(St)) >= 2

(***************************************************************************)
(* C23  Host_Shutdown resets everything; Memory_Init can run again.        *)
(***************************************************************************)
\* C23: when the Host_Shutdown hook has returned, no console variable of the
\* modules is registered and every pointer of engine.rs is unset; and a
\* Memory_Init hook that runs after a Host_Shutdown hook does not abort in
\* register (the variable is already registered) nor in deregister (the
\* variable is not registered).
ShutdownResets ==
    LET guardFailed == \E i \in 2..Len(events) :
                            /\ events[i].fn = "abort"
                            /\ events[i - 1].fn \in {"register", "deregister"}
    IN  /\ (/\ events # <<>> /\ events[1].fn = "Host_Shutdown"
            /\ events[Len(events)].fn = "return") =>
                /\ \A c \in ModuleCVars : ~is_registered(St, c)
                /\ pointers = {}
        /\ (shutdowns >= 1 /\ events # <<>> /\ events[1].fn = "Memory_Init") =>
                ~guardFailed

\* The Memory_Init hook ran a third time, after two Host_Shutdown hooks,
\* registered every variable and de-registered those of both modules.
ShutdownResetsWitness ==
    /\ shutdowns = 2 /\ events # <<>> /\ events[1].fn = "Memory_Init"
    /\ events[Len(events)].fn = "return" /\ ~panicked
    /\ is_enabled(pointers) /\ enabled = {}
    /\ Cardinality({i \in 1..Len(events) : events[i].fn = "register"})
        = Cardinality(ModuleCVars)
    /\ Cardinality({i \in 1..Len(events) : events[i].fn = "deregister"})
        = Cardinality(ModuleCVars)

(***************************************************************************)
(* C24  The order of the steps of the hooks.                               *)
(***************************************************************************)
\* C24: in the Memory_Init hook the pointers are resolved first, the
\* engine's Memory_Init runs with them set and before any console variable
\* or command is registered, and variables are de-registered only after
\* every variable and the commands are registered.  In the Host_Shutdown
\* hook the commands are de-registered before the engine's Host_Shutdown
\* runs, the variables are marked not registered only after it, with the
\* pointers still set as they were when the hook began, and the pointers
\* are reset last.  A hook that returns has done each of its steps once.
HookOrdering ==
    LET idx(fn) == {i \in 1..Len(events) : events[i].fn = fn}
        before(a, b) == \A i \in idx(a), j \in idx(b) : i < j
        once(fn) == Cardinality(idx(fn)) = 1
        is(fn) == events # <<>> /\ events[1].fn = fn
        returned == events[Len(events)].fn = "return"
    IN  /\ is("Memory_Init") =>
            /\ idx("find_pointers") = {2}
            /\ \A i \in idx("MEMORY_INIT") :
                i = 3 /\ events[i].pointers = events[2].pointers
            /\ \A fn \in {"register_all_cvars", "register",
                          "register_all_commands"} : before("MEMORY_INIT", fn)
            /\ \A fn \in {"register_all_cvars", "register"} :
                before(fn, "register_all_commands")
            /\ \A fn \in {"register", "register_all_commands"} :
                /\ before(fn, "deregister_disabled_module_cvars")
                /\ before(fn, "deregister")
            /\ before("deregister", "deregister_disabled_module_commands")
            /\ returned =>
                \A fn \in {"MEMORY_INIT", "register_all_cvars",
                           "register_all_commands",
                           "deregister_disabled_module_cvars",
                           "deregister_disabled_module_commands"} : once(fn)
        /\ is("Host_Shutdown") =>
            /\ idx("deregister_all_commands") = {2}
            /\ idx("HOST_SHUTDOWN") = {3}
            /\ \A fn \in {"mark_all_cvars_as_not_registered",
                          "mark_as_not_registered"} :
                /\ before("HOST_SHUTDOWN", fn)
                /\ before(fn, "reset_pointers")
                /\ \A i \in idx(fn) : events[i].pointers = events[1].pointers
            /\ returned =>
                /\ once("mark_all_cvars_as_not_registered")
                /\ idx("reset_pointers") = {Len(events) - 1}
                /\ events[Len(events) - 1].pointers = {}
                /\ is_enabled(events[1].pointers) =>
                    \A c \in ModuleCVars :
                        \E i \in idx("mark_as_not_registered") :
                            events[i].cvar = c

\* The Host_Shutdown hook returned: it began with every pointer set and a
\* variable that the engine had registered (it still holds the value the
\* engine gave it), and marked every variable before it reset the pointers.
HookOrderingWitness ==
    /\ events # <<>> /\ events[1].fn = "Host_Shutdown"
    /\ events[Len(events)].fn = "return"
    /\ events[1].pointers = Pointers /\ pointers = {}
    /\ Cardinality({i \in 1..Len(events) :
                        events[i].fn = "mark_as_not_registered"})
        = Cardinality(ModuleCVars)
    /\ \E c \in ModuleCVars : raw[c].value # 0

====
